---- MODULE Spec2Model ----
(***************************************************************************)
(* Model of IPCCAR6_WG1_Chapter3_Figs3.2a_3.44.py: the data-model          *)
(* comparison script behind IPCC AR6 WGI Figures 3.2a and 3.44.            *)
(*                                                                         *)
(* Part I fills the nested dictionary dic_res and saves it in a shelve     *)
(* store; Part II reads dic_res, draws the two figures and writes the two  *)
(* numeric reports.  Numbers read from data files are not available to the *)
(* model: a result stored in dic_res is a token naming the computation     *)
(* that produced it, so that two different computations never yield the    *)
(* same value.  The statistics themselves (Monte Carlo averages, temporal  *)
(* subsampling, masking) are modelled on small grids and short series in   *)
(* specifications of their own.                                            *)
(***************************************************************************)
EXTENDS Integers, Sequences, FiniteSets, TLC

(***************************************************************************)
(* Generic helpers: python lists are sequences, python dictionaries are    *)
(* functions whose domain is the set of keys.                              *)
(***************************************************************************)
Range(s) == {s[k] : k \in DOMAIN s}

EmptyDict == [k \in {} |-> {}]

\* d[k] = v on a dictionary: the key is added or its value replaced
Put(d, k, v) == [x \in (DOMAIN d) \cup {k} |-> IF x = k THEN v ELSE d[x]]

\* list.index(x): position of the first occurrence, counted from 0
IndexOf(s, x) == (CHOOSE k \in DOMAIN s : s[k] = x /\ \A j \in 1..(k-1) : s[j] # x) - 1

RECURSIVE Concat(_)
Concat(ss) == IF ss = <<>> THEN <<>> ELSE Head(ss) \o Concat(Tail(ss))

\* the keys of a dictionary as a list, in a fixed order
RECURSIVE SetToSeq(_)
SetToSeq(S) == IF S = {} THEN <<>>
               ELSE LET x == CHOOSE y \in S : TRUE IN <<x>> \o SetToSeq(S \ {x})

(***************************************************************************)
(* Configuration tables (lines 54-423)                                     *)
(***************************************************************************)
list_periods == <<"LGM", "MH">>

list_pmip3_models_lgm ==
  <<"IPSL", "CNRM", "MIROC", "MPI-p1", "MPI-p2", "MRI", "GISSE2-p1", "GISSE2-p2", "CESM">>

list_pmip4_models_lgm ==
  <<"CESM2.1", "CESM1-2", "AWI-ESM-1-1-LR", "AWIESM2", "iLOVECLIM-ICE-6G",
    "iLOVECLIM-GLAC1D", "INM-CM4-8", "MIROC-ES2L", "MPI-ESM1-2-LR", "UT-CCSM4", "IPSLCM5A2">>

list_models_lgm == list_pmip3_models_lgm \o list_pmip4_models_lgm

list_pmip3_models_mh ==
  <<"bcc-csm1-1", "CCSM4", "CNRM-CM5", "CSIRO-Mk3-6-0", "CSIRO-Mk3L-1-2",
    "FGOALS-g2", "FGOALS-s2",
    "GISS-E2-R", "HadGEM2-ES", "IPSL-CM5A-LR", "MIROC-ESM", "MPI-ESM-P", "MRI-CGCM3">>

list_pmip4_models_mh ==
  <<"AWI-ESM-1-1-LR", "CESM2", "EC-Earth3-LR", "FGOALS-f3-L", "FGOALS-g3", "GISS-E2-1-G",
    "HadGEM3-GC31", "INM-CM4-8",
    "IPSL-CM6A-LR", "MIROC-ES2L", "MPI-ESM1-2-LR", "MRI-ESM2-0", "NESM3", "NorESM1-F",
    "NorESM2-LM", "UofT-CCSM-4">>

list_models_mh == list_pmip3_models_mh \o list_pmip4_models_mh

list_pmip3_models == list_pmip3_models_lgm \o list_pmip3_models_mh

list_pmip4_models ==
  list_pmip4_models_lgm \o list_pmip4_models_mh \o <<"ACCESS-ESM1-5", "CNRM-CM6-1">>

list_cmip6_models ==
  <<"ACCESS-ESM1-5", "AWI-ESM-1-1-LR", "CESM2", "CESM2.1", "EC-Earth3-LR", "FGOALS-f3-L",
    "FGOALS-g3", "GISS-E2-1-G",
    "HadGEM3-GC31", "INM-CM4-8", "IPSL-CM6A-LR", "MIROC-ES2L", "MPI-ESM1-2-LR",
    "MRI-ESM2-0", "NESM3", "NorESM2-LM">>

\* the tabulated global mean anomalies: the keys of the three dictionaries
\* (a tabulated number is kept as the token "table/<period>/<model>")
dic_global_mean_lig ==
  {"ACCESS-ESM1-5", "AWI-ESM-1-1-LR", "AWIESM2", "CESM2", "CNRM-CM6-1", "EC-Earth3-LR",
   "FGOALS-f3-L", "FGOALS-g3", "GISS-E2-1-G", "HadGEM3-GC31", "INM-CM4-8", "IPSL-CM6A-LR",
   "MIROC-ES2L", "MPI-ESM1-2-LR", "NESM3", "NorESM1-F", "NorESM2-LM"}

dic_global_mean_plio ==
  {"CCSM4-plio", "CCSM4-UoT", "CCSM4-Utrecht", "CESM1.2", "CESM2", "COSMOS",
   "EC-Earth3-LR", "GISS-E2-1-G", "HadCM3", "IPSL-CM6A-LR", "IPSLCM5A", "IPSLCM5A2",
   "MIROC4m", "MRI-CGCM2.3", "NorESM-L", "NorESM1-F", "HadGEM3"}

dic_global_mean_eocene ==
  {"CESM1.2_CAM5-deepmip_stand_6xCO2", "COSMOS-landveg_r2413-deepmip_sens_4xCO2",
   "GFDL_CM2.1-deepmip_stand_6xCO2", "GFDL_CM2.1-deepmip_sens_4xCO2",
   "INM-CM4-8-deepmip_stand_6xCO2", "NorESM1_F-deepmip_sens_4xCO2"}

\* assessed GSAT ranges [min, max], in tenths of a degree
darrell_s_delta_gsat_estimates ==
  [MH |-> <<2, 10>>, LGM |-> <<-70, -40>>, LIG |-> <<5, 15>>,
   MPWP |-> <<25, 40>>, EECO |-> <<110, 170>>]

list_regions == <<"Globe", "WesternEurope", "NAmerica", "WestAfrica">>

list_reconstructions == <<"Tierney2019", "Bartlein2011", "Cleator2019">>

dic_rds_masks == [Bartlein2011 |-> "own", Cleator2019 |-> "own", Tierney2019 |-> "own"]

\* dic_data_files[rds][var]: the periods for which a data file is named
dic_data_files ==
  [MARGO2009 |-> [MATocean |-> {"LGM"}],
   Tierney2019 |-> [MATocean |-> {"LGM"}],
   Tierney2020DA |-> [MATocean |-> {"LGM"}],
   Bartlein2011 |-> [v \in {"MAT", "MTCO", "MTWA", "MAP"} |-> {"MH", "LGM"}],
   Cleator2019 |-> [v \in {"MAT", "MTCO", "MTWA", "MAP"} |-> {"LGM"}],
   Cleator2019_B2011pts |-> [v \in {"MAT", "MTCO", "MTWA", "MAP"} |-> {"LGM"}]]

\* dic_rec_varnames[rds][var]: [prefix, suffix of the mean, suffix of the standard error]
dic_rec_varnames ==
  [Bartlein2011 |-> [MTCO |-> <<"mtco", "_anm_mean", "_se_mean">>,
                     MAT |-> <<"mat", "_anm_mean", "_se_mean">>,
                     MTWA |-> <<"mtwa", "_anm_mean", "_se_mean">>,
                     MAP |-> <<"map", "_anm_mean", "_se_mean">>],
   Cleator2019 |-> [MTCO |-> <<"MTCO", "", "_SD">>, MAT |-> <<"MAT", "", "_SD">>,
                    MTWA |-> <<"MTWA", "", "_SD">>, MAP |-> <<"MAP", "", "_SD">>],
   Cleator2019_B2011pts |-> [MTCO |-> <<"MTCO", "", "_SD">>, MAT |-> <<"MAT", "", "_SD">>,
                             MTWA |-> <<"MTWA", "", "_SD">>, MAP |-> <<"MAP", "", "_SD">>],
   MARGO2009 |-> [SSTjfmanom |-> <<"lgmanomjfmsst", "lgmanomjfmmin", "lgmanomjfmmax">>,
                  SSTjasanom |-> <<"lgmanomjassst", "lgmanomjasmin", "lgmanomjasmax">>,
                  MATocean |-> <<"lgmanomann", "sst", "std">>],
   Tierney2019 |-> [MATocean |-> <<"", "deltaSST", "std">>],
   Tierney2020DA |-> [MATocean |-> <<"", "deltaSAToverOceans", "errdeltaSAToverOceans">>]]

\* variables read from each reconstruction synthesis, per period
dic_list_vars ==
  [LGM |-> [Bartlein2011 |-> <<"MTCO", "MAT", "MTWA", "MAP">>,
            Cleator2019 |-> <<"MTCO", "MAT", "MTWA", "MAP">>,
            Tierney2019 |-> <<"MATocean">>],
   MH |-> [Bartlein2011 |-> <<"MTCO", "MAT", "MTWA", "MAP">>]]

dic_model_varnames ==
  [MTCO |-> "tas", MAT |-> "tas", MTWA |-> "tas", MAP |-> "pr", MATocean |-> "tas"]

dic_model_diagnames ==
  [MTCO |-> "MIN", MAT |-> "YR", MTWA |-> "MAX", MAP |-> "YR", MATocean |-> "YR"]

\* the keys of dic_color_models
dic_color_models ==
  {"AWI-ESM-1-1-LR", "AWIESM2", "CESM1-2", "CESM2", "CESM2.1", "EC-Earth3-LR",
   "FGOALS-f3-L", "FGOALS-g3", "GISS-E2-1-G", "HadGEM3-GC31", "INM-CM4-8", "IPSL-CM6A-LR",
   "IPSLCM5A2", "MIROC-ES2L", "MPI-ESM1-2-LR", "MRI-ESM2-0", "NESM3", "NorESM1-F",
   "NorESM2-LM", "UofT-CCSM-4", "iLOVECLIM-ICE-6G", "iLOVECLIM-GLAC1D", "UT-CCSM4",
   "ACCESS-ESM1-5", "CNRM-CM6-1"}

\* the keys of dic_regions
dic_regions == {"Globe", "WesternEurope", "WestAfrica", "NAmerica"}

dic_labels ==
  [k \in {"Bartlein2011", "GISSE2-p1", "GISSE2-p2", "MRI", "MIROC", "MPI-p2", "MPI-p1",
          "CNRM", "IPSL", "FGOALS", "Cleator2019", "CESM", "MPI-ESM1-2-LR", "MIROC-ES2L",
          "UT-CCSM4", "Tierney2019", "CESM2", "INM-CM4-8", "iLOVECLIM", "CESM1-2",
          "IPSLCM5A2", "AWI-ESM-1-1-LR", "AWIESM2"} |->
     CASE k = "Bartlein2011" -> "Bartlein et al., 2011"
       [] k = "GISSE2-p1" -> "GISS-E2-R-p150"
       [] k = "GISSE2-p2" -> "GISS-E2-R-p151"
       [] k = "MRI" -> "MRI-CGCM3"
       [] k = "MIROC" -> "MIROC-ESM-CMIP5"
       [] k = "MPI-p2" -> "MPI-ESM-P-p1"
       [] k = "MPI-p1" -> "MPI-ESM-P-p2"
       [] k = "CNRM" -> "CNRM-CM5"
       [] k = "IPSL" -> "IPSL-CM5A-LR"
       [] k = "FGOALS" -> "FGOALS-g2"
       [] k = "Cleator2019" -> "Cleator2020"
       [] k = "CESM" -> "CCSM4"
       [] k = "MPI-ESM1-2-LR" -> "MPI-ESM-1.2"
       [] k = "UT-CCSM4" -> "UoT-CCSM4"
       [] k = "Tierney2019" -> "Tierney2020"
       [] k = "CESM1-2" -> "CESM1.2"
       [] k = "AWIESM2" -> "AWI-ESM-2-1-LR"
       [] OTHER -> k]

\* templates for the models of the lists, the LGM template of IPSLCM5A2 missing
dic_models_less_one ==
  [PI |-> [m \in Range(list_models_lgm) |-> 2],
   LGM |-> [m \in Range(list_models_lgm) \ {"IPSLCM5A2"} |-> 2],
   MH |-> [m \in Range(list_models_mh) |-> 3]]

\* dic_models[period][model]: the number of %s placeholders of the file template
dic_models ==
  [PI |-> [m \in {"IPSL", "CNRM", "MIROC", "MPI-p1", "MPI-p2", "MRI", "GISSE2-p1", "GISSE2-p2",
                  "CESM", "MIROC-ES2L", "MPI-ESM1-2-LR", "UT-CCSM4", "CESM2", "CESM2.1",
                  "FGOALS-g3-r1", "FGOALS-g3-r2", "FGOALS-g3-r3", "IPSLCM6A-f1",
                  "IPSLCM6A-f2", "IPSLCM6A-f3", "IPSLCM6A-f4", "MRI-ESM2", "NESM3",
                  "NorESM1-F", "AWI-ESM-1-1-LR", "AWIESM2", "INM-CM4-8",
                  "iLOVECLIM-GLAC1D", "iLOVECLIM-ICE-6G", "CESM1-2", "IPSLCM5A2"} |->
             IF m \in {"FGOALS-g3-r1", "FGOALS-g3-r2", "FGOALS-g3-r3", "IPSLCM6A-f1",
                       "IPSLCM6A-f2", "IPSLCM6A-f3", "IPSLCM6A-f4", "MRI-ESM2", "NESM3",
                       "NorESM1-F"}
             THEN 3 ELSE 2],
   LGM |-> [m \in {"IPSL", "CNRM", "MIROC", "MPI-p1", "MPI-p2", "MRI", "GISSE2-p1", "GISSE2-p2",
                   "CESM", "MIROC-ES2L", "MPI-ESM1-2-LR", "UT-CCSM4", "AWI-ESM-1-1-LR",
                   "AWIESM2", "INM-CM4-8", "iLOVECLIM-GLAC1D", "iLOVECLIM-ICE-6G",
                   "CESM1-2", "IPSLCM5A2", "CESM2.1"} |-> 2],
   MH |-> [m \in {"CESM", "CNRM", "GISSE2-p1", "IPSL", "MIROC", "MPI-p1", "MPI-p2", "MRI",
                  "CESM2", "FGOALS-f3", "FGOALS-g3-r1", "FGOALS-g3-r2", "FGOALS-g3-r3",
                  "IPSLCM6A-f1", "IPSLCM6A-f2", "IPSLCM6A-f3", "IPSLCM6A-f4", "MIROC-ES2L",
                  "MRI-ESM2", "NESM3", "NorESM1-F"} |-> 3]]


compute_monte_carlo_averages == "yes"

plot_deltaTland_vs_deltaTocean == "yes"

(***************************************************************************)
(* Values.  A number computed from data files is a token (a string) naming *)
(* the computation; UNDEF is the content of a python name never assigned.  *)
(***************************************************************************)
UNDEF == "UNDEF"

ZERO == "0"

RECURSIVE Join(_)
Join(parts) == IF Len(parts) = 1 THEN parts[1] ELSE parts[1] \o "/" \o Join(Tail(parts))

\* a leaf of dic_res holding the value v (a dictionary never has the key "val")
Leaf(v) == [val |-> v]

IsLeaf(n) == "val" \in DOMAIN n

\* d[p1][p2]...[pn] can be evaluated
RECURSIVE HasPath(_, _)
HasPath(d, p) ==
  \/ p = <<>>
  \/ /\ ~IsLeaf(d)
     /\ Head(p) \in DOMAIN d
     /\ HasPath(d[Head(p)], Tail(p))

RECURSIVE GetPath(_, _)
GetPath(d, p) == IF p = <<>> THEN d ELSE GetPath(d[Head(p)], Tail(p))

\* d[p1]...[pn] = v: every key but the last one must exist
RECURSIVE SetPath(_, _, _)
SetPath(d, p, v) ==
  IF Len(p) = 1 THEN Put(d, p[1], v)
  ELSE [d EXCEPT ![Head(p)] = SetPath(@, Tail(p), v)]

(***************************************************************************)
(* The shelve store (lines 432-434, 649-651): a value is pickled when it   *)
(* is assigned to a key and unpickled when the key is read.  The pickle of *)
(* a dictionary is the stream  "{" ("K" key, pickle of value)* "}", the    *)
(* pickle of a number is "V" followed by the number.                       *)
(***************************************************************************)
\* a pickle that does not descend into a dictionary
PickleShallow(n) == IF IsLeaf(n) THEN <<"V", n.val>> ELSE <<"{", "}">>

RECURSIVE Pickle(_), PickleItems(_, _)
Pickle(n) ==
  IF IsLeaf(n) THEN <<"V", n.val>>
  ELSE <<"{">> \o PickleItems(n, SetToSeq(DOMAIN n)) \o <<"}">>

PickleItems(n, ks) ==
  IF ks = <<>> THEN <<>>
  ELSE <<"K", Head(ks)>> \o Pickle(n[Head(ks)]) \o PickleItems(n, Tail(ks))

\* UnpickleAt returns <<value, position after the value>>
RECURSIVE UnpickleAt(_, _), UnpickleItems(_, _, _)
UnpickleAt(s, p) ==
  IF s[p] = "V" THEN <<Leaf(s[p + 1]), p + 2>>
  ELSE UnpickleItems(s, p + 1, EmptyDict)

UnpickleItems(s, p, acc) ==
  IF s[p] = "}" THEN <<acc, p + 1>>
  ELSE LET r == UnpickleAt(s, p + 2)
       IN UnpickleItems(s, r[2], Put(acc, s[p + 1], r[1]))

Unpickle(s) == UnpickleAt(s, 1)[1]

\* shelf[key] = value
shelve_setitem(shelf, key, value) == Put(shelf, key, Pickle(value))

\* shelf[key]
shelve_getitem(shelf, key) == Unpickle(shelf[key])

StoreKey == "dic_res"

(***************************************************************************)
(* Part I loop nest (lines 450-470): the (period, region, rds, var)        *)
(* iterations in the order of the loops; a reconstruction that is not a    *)
(* key of dic_list_vars[period] is skipped by the continue of line 469.    *)
(***************************************************************************)
VarIters(period, region, rds) ==
  [k \in 1..Len(dic_list_vars[period][rds]) |->
     <<period, region, rds, dic_list_vars[period][rds][k]>>]

RdsIters(period, region) ==
  Concat([k \in 1..Len(list_reconstructions) |->
            IF list_reconstructions[k] \in DOMAIN dic_list_vars[period]
            THEN VarIters(period, region, list_reconstructions[k])
            ELSE <<>>])

RegionIters(period) ==
  Concat([k \in 1..Len(list_regions) |-> RdsIters(period, list_regions[k])])

Part1Iters == Concat([k \in 1..Len(list_periods) |-> RegionIters(list_periods[k])])

\* lines 451-456
ModelsOfPeriod(period) ==
  CASE period = "LGM" -> list_models_lgm
    [] period = "MH" -> list_models_mh

\* lines 440-447: the dictionary before any result is stored
InitialDicRes ==
  [period \in Range(list_periods) |->
    [var \in {"MAT", "MTCO", "MTWA", "MAP", "MATocean"} |->
      [region \in Range(list_regions) |->
        [rds \in Range(list_reconstructions) |-> EmptyDict]]]]


(***************************************************************************)
(* State                                                                   *)
(***************************************************************************)
VARIABLES
  pc,                     \* position of the script
  err,                    \* the exception that ended the run, "none" if none
  recomputed,             \* number of executions that recomputed the averages so far
  compute_averages_again, \* option of line 56 for the current execution
  sp_keys,                \* order in which this python build lists the panel keys
  store,                  \* shelve store DMC_LGM_MH_PMIP3_PMIP4_IPCC_save_res2
  last_saved,             \* dic_res as it was when the store was last saved
  last_reports,           \* the reports as the last complete recomputing execution left them
  reports,                \* the two numeric report files
  figfiles,               \* figure files written by savefig
  dic_res,
  it,                     \* Part I: index of the (period, region, rds, var) iteration
  im,                     \* Part I: index of the model
  list_models,
  openfiles,              \* data file handles currently open
  fnamepi, fnamepast,
  vpi, vpast,             \* model fields read from fpi and fpast
  sp_list, isp,           \* Figure 3.44: list of subplot keys, index of the panel
  delta, deltaerr, i, pmipphase, list_pmip4_models2,
  fig,                    \* subplots of the figure being drawn
  mc                      \* the arrays of one computation of Part I, on a small grid
                          \* or a short series (used by SpecRec, SpecGrid, SpecTemporal)

sysVars == <<pc, err, recomputed, compute_averages_again>>
diskVars == <<store, last_saved, last_reports, reports, figfiles>>
part1Vars == <<dic_res, it, im, list_models, openfiles, fnamepi, fnamepast, vpi, vpast>>
part2Vars == <<sp_list, isp, delta, deltaerr, i, pmipphase, list_pmip4_models2, fig>>

\* an uncaught exception ends the run; nothing else changes
Raise(e) == /\ pc' = "error"
            /\ err' = e
            /\ UNCHANGED <<recomputed, compute_averages_again, mc, sp_keys>>
            /\ UNCHANGED <<diskVars, part1Vars, part2Vars>>

(***************************************************************************)
(* Data files: c.open, a read through the handle, close                    *)
(***************************************************************************)
c_open(files, h) == files \cup {h}

\* a close that leaves the file open
c_close_noop(files, h) == files

c_close(files, h) == files \ {h}

\* a field can be read through a handle only while the file is open
CanRead(files, h) == h \in files

(***************************************************************************)
(* Part I (lines 431-651)                                                  *)
(***************************************************************************)
period_ == Part1Iters[it][1]
region_ == Part1Iters[it][2]
rds_ == Part1Iters[it][3]
var_ == Part1Iters[it][4]
model_ == list_models[im]

RdsPath == <<period_, var_, region_, rds_>>

\* the result of one computation of Part I
Tok(path) == Leaf(Join(path))

\* lines 431-434
LoadSaved ==
  /\ pc = "start"
  /\ compute_averages_again # "yes"
  /\ IF StoreKey \in DOMAIN store
     THEN /\ dic_res' = shelve_getitem(store, StoreKey)
          /\ pc' = "fig344_open"
          /\ UNCHANGED <<err, recomputed, compute_averages_again, mc, sp_keys, diskVars, part2Vars>>
          /\ UNCHANGED <<it, im, list_models, openfiles, fnamepi, fnamepast, vpi, vpast>>
     ELSE Raise("KeyError")

\* Part I entered whatever the option is
InitDicResUnguarded ==
  /\ pc = "start"
  /\ dic_res' = InitialDicRes
  /\ it' = 1
  /\ pc' = IF Part1Iters = <<>> THEN "save" ELSE "rec_open"
  /\ UNCHANGED <<err, recomputed, compute_averages_again, mc, sp_keys, diskVars, part2Vars>>
  /\ UNCHANGED <<im, list_models, openfiles, fnamepi, fnamepast, vpi, vpast>>

\* lines 435-447
InitDicRes ==
  /\ pc = "start"
  /\ compute_averages_again = "yes"
  /\ dic_res' = InitialDicRes
  /\ it' = 1
  /\ pc' = IF Part1Iters = <<>> THEN "save" ELSE "rec_open"
  /\ UNCHANGED <<err, recomputed, compute_averages_again, mc, sp_keys, diskVars, part2Vars>>
  /\ UNCHANGED <<im, list_models, openfiles, fnamepi, fnamepast, vpi, vpast>>

\* lines 450-476: loop heads and opening of the reconstruction file
RecOpen ==
  /\ pc = "rec_open"
  /\ IF /\ region_ \in dic_regions
        /\ rds_ \in DOMAIN dic_data_files
        /\ var_ \in DOMAIN dic_data_files[rds_]
        /\ period_ \in dic_data_files[rds_][var_]
     THEN /\ list_models' = ModelsOfPeriod(period_)
          /\ openfiles' = c_open(openfiles, "f")
          /\ pc' = "rec_read"
          /\ UNCHANGED <<err, recomputed, compute_averages_again, mc, sp_keys, diskVars, part2Vars>>
          /\ UNCHANGED <<dic_res, it, im, fnamepi, fnamepast, vpi, vpast>>
     ELSE Raise("KeyError")

\* lines 498 and 505: the mask and the number of points of the reconstruction
StoreMask(d, p) ==
  SetPath(SetPath(d, p \o <<"mask">>, Tok(p \o <<"mask">>)),
          p \o <<"nbpts">>, Tok(p \o <<"nbpts">>))

\* lines 479-513: mean and standard error are read, the common mask and the
\* number of points are stored
RecRead ==
  /\ pc = "rec_read"
  /\ IF ~CanRead(openfiles, "f") THEN Raise("IOError")
     ELSE IF ~ (/\ rds_ \in DOMAIN dic_rec_varnames
                /\ var_ \in DOMAIN dic_rec_varnames[rds_]
                /\ rds_ \in DOMAIN dic_rds_masks
                /\ HasPath(dic_res, RdsPath)) THEN Raise("KeyError")
     ELSE /\ dic_res' = StoreMask(dic_res, RdsPath)
          /\ pc' = "rec_close"
          /\ UNCHANGED <<err, recomputed, compute_averages_again, mc, sp_keys, diskVars, part2Vars>>
          /\ UNCHANGED <<it, im, list_models, openfiles, fnamepi, fnamepast, vpi, vpast>>

\* line 515
RecClose ==
  /\ pc = "rec_close"
  /\ openfiles' = c_close(openfiles, "f")
  /\ pc' = "rec_mc"
  /\ UNCHANGED <<err, recomputed, compute_averages_again, mc, sp_keys, diskVars, part2Vars>>
  /\ UNCHANGED <<dic_res, it, im, list_models, fnamepi, fnamepast, vpi, vpast>>

\* lines 529-531
StoreRec(d, rp) ==
  LET p == rp \o <<"reconstructions">>
      d1 == SetPath(d, p, EmptyDict)
      d2 == SetPath(d1, p \o <<"mean">>, Tok(p \o <<"mean">>))
  IN SetPath(d2, p \o <<"std">>, Tok(p \o <<"std">>))

\* lines 518-531: Monte Carlo average of the reconstructions
RecMonteCarlo ==
  /\ pc = "rec_mc"
  /\ dic_res' = StoreRec(dic_res, RdsPath)
  /\ im' = 1
  /\ pc' = "pi_open"
  /\ UNCHANGED <<err, recomputed, compute_averages_again, mc, sp_keys, diskVars, part2Vars>>
  /\ UNCHANGED <<it, list_models, openfiles, fnamepi, fnamepast, vpi, vpast>>

\* glob.glob of lines 546 and 563: the files matching the pattern; every
\* search finds its file
glob(pattern) == <<"glob:" \o pattern>>

\* lines 547-551 and 564-568: the file found when the search returns exactly
\* one file; otherwise a message is printed and the name keeps its value
SelectFile(file_list, oldname) == IF Len(file_list) = 1 THEN file_list[1] ELSE oldname

\* the name of the model file of experiment expe ("PI", or the period),
\* lines 544-553 and 561-570; <<ok, name>>
FileName(period, expe, model, var, oldname) ==
  LET diag == dic_model_diagnames[var]
      modvarname == dic_model_varnames[var]
  IN IF period = "MH"
     THEN LET file_list == glob(Join(<<modvarname, diag \o modvarname, model,
                                      IF expe = "PI" THEN "piControl" ELSE "midHolocene">>))
          IN <<"ok", SelectFile(file_list, oldname)>>
     ELSE IF period = "LGM"
     THEN IF model \notin DOMAIN dic_models[expe] THEN <<"KeyError", oldname>>
          ELSE IF dic_models[expe][model] # 2 THEN <<"TypeError", oldname>>
          ELSE <<"ok", Join(<<expe, model, modvarname, diag>>)>>
     ELSE <<"ok", oldname>>

\* lines 535-556
PiOpen ==
  /\ pc = "pi_open"
  /\ LET fn == FileName(period_, "PI", model_, var_, fnamepi)
     IN IF fn[1] # "ok" THEN Raise(fn[1])
        ELSE IF fn[2] = UNDEF THEN Raise("NameError")
        ELSE /\ dic_res' = SetPath(dic_res, RdsPath \o <<model_>>, EmptyDict)
             /\ fnamepi' = fn[2]
             /\ openfiles' = c_open(openfiles, "fpi")
             /\ pc' = "pi_read"
             /\ UNCHANGED <<err, recomputed, compute_averages_again, mc, sp_keys, diskVars, part2Vars>>
             /\ UNCHANGED <<it, im, list_models, fnamepast, vpi, vpast>>

\* line 557
PiRead ==
  /\ pc = "pi_read"
  /\ IF ~CanRead(openfiles, "fpi") THEN Raise("IOError")
     ELSE /\ vpi' = Join(<<fnamepi, region_>>)
          /\ pc' = "pi_close"
          /\ UNCHANGED <<err, recomputed, compute_averages_again, mc, sp_keys, diskVars, part2Vars>>
          /\ UNCHANGED <<dic_res, it, im, list_models, openfiles, fnamepi, fnamepast, vpast>>

\* line 558
PiClose ==
  /\ pc = "pi_close"
  /\ openfiles' = c_close(openfiles, "fpi")
  /\ pc' = "past_open"
  /\ UNCHANGED <<err, recomputed, compute_averages_again, mc, sp_keys, diskVars, part2Vars>>
  /\ UNCHANGED <<dic_res, it, im, list_models, fnamepi, fnamepast, vpi, vpast>>

\* lines 560-571
PastOpen ==
  /\ pc = "past_open"
  /\ LET fn == FileName(period_, period_, model_, var_, fnamepast)
     IN IF fn[1] # "ok" THEN Raise(fn[1])
        ELSE IF fn[2] = UNDEF THEN Raise("NameError")
        ELSE /\ fnamepast' = fn[2]
             /\ openfiles' = c_open(openfiles, "fpast")
             /\ pc' = "past_read"
             /\ UNCHANGED <<err, recomputed, compute_averages_again, mc, sp_keys, diskVars, part2Vars>>
             /\ UNCHANGED <<dic_res, it, im, list_models, fnamepi, vpi, vpast>>

\* line 572
PastRead ==
  /\ pc = "past_read"
  /\ IF ~CanRead(openfiles, "fpast") THEN Raise("IOError")
     ELSE /\ vpast' = Join(<<fnamepast, region_>>)
          /\ pc' = "past_close"
          /\ UNCHANGED <<err, recomputed, compute_averages_again, mc, sp_keys, diskVars, part2Vars>>
          /\ UNCHANGED <<dic_res, it, im, list_models, openfiles, fnamepi, fnamepast, vpi>>

\* line 573
PastClose ==
  /\ pc = "past_close"
  /\ openfiles' = c_close(openfiles, "fpast")
  /\ pc' = "model_stats"
  /\ UNCHANGED <<err, recomputed, compute_averages_again, mc, sp_keys, diskVars, part2Vars>>
  /\ UNCHANGED <<dic_res, it, im, list_models, fnamepi, fnamepast, vpi, vpast>>

dic_stat_vars == <<"allmodelpts", "modelonrecpts">>

\* a loop over dic_stat_vars that stores the first case only
StoreStatsFirstCaseOnly(d, mpath, cases) ==
  IF cases = <<>> THEN d
  ELSE LET cp == mpath \o <<Head(cases)>>
       IN SetPath(SetPath(d, cp \o <<"delta_mean">>, Tok(cp \o <<"delta_mean">>)),
                  cp \o <<"delta_std">>, Tok(cp \o <<"delta_std">>))

\* lines 616-642: the statistics of one model stored under d[...][model]
RECURSIVE StoreStats(_, _, _)
StoreStats(d, mpath, cases) ==
  IF cases = <<>> THEN d
  ELSE LET cp == mpath \o <<Head(cases)>>
           d1 == SetPath(d, cp \o <<"delta_mean">>, Tok(cp \o <<"delta_mean">>))
           d2 == SetPath(d1, cp \o <<"delta_std">>,
                         IF compute_monte_carlo_averages # "yes" THEN Leaf(ZERO)
                         ELSE Tok(cp \o <<"delta_std">>))
       IN StoreStats(d2, mpath, Tail(cases))

RECURSIVE InitCases(_, _, _)
InitCases(d, mpath, cases) ==
  IF cases = <<>> THEN d
  ELSE InitCases(SetPath(d, mpath \o <<Head(cases)>>, EmptyDict), mpath, Tail(cases))

\* lines 575-646: units, regridding, masking, spatial and temporal averages of
\* one model; then the next model, the next iteration, or the end of the loops
ModelStats ==
  /\ pc = "model_stats"
  /\ LET mpath == RdsPath \o <<model_>>
     IN dic_res' = StoreStats(InitCases(dic_res, mpath, dic_stat_vars), mpath, dic_stat_vars)
  /\ IF im < Len(list_models)
     THEN /\ im' = im + 1
          /\ it' = it
          /\ pc' = "pi_open"
     ELSE /\ im' = im
          /\ IF it < Len(Part1Iters)
             THEN it' = it + 1 /\ pc' = "rec_open"
             ELSE it' = it /\ pc' = "save"
  /\ UNCHANGED <<err, recomputed, compute_averages_again, mc, sp_keys, diskVars, part2Vars>>
  /\ UNCHANGED <<list_models, openfiles, fnamepi, fnamepast, vpi, vpast>>

\* lines 649-651
SaveRes ==
  /\ pc = "save"
  /\ store' = shelve_setitem(store, StoreKey, dic_res)
  /\ last_saved' = dic_res
  /\ pc' = "fig344_open"
  /\ UNCHANGED <<err, recomputed, compute_averages_again, mc, sp_keys, last_reports, reports, figfiles>>
  /\ UNCHANGED <<part1Vars, part2Vars>>


(***************************************************************************)
(* Part II, Figure 3.44 (lines 662-922)                                    *)
(***************************************************************************)
ncols == 8

nlines == 3

\* dic_summary_plots_ipcc_3_43_with_global_means: subplot number -> parameters
\* (the key of the dictionary is the tuple (nlines, ncols, subplot number))
dic_summ_plots ==
  [n \in {2, 3, 4, 5, 6} \cup (ncols + 1)..(ncols + 7) \cup (2*ncols + 1)..(2*ncols + 7) |->
     CASE n = 2 -> <<"MH", "MAT", "Globe", "Bartlein2011">>
       [] n = 3 -> <<"LGM", "MAT", "Globe", "Bartlein2011">>
       [] n = 4 -> <<"LIG", "MAT", "Globe", "Bartlein2011">>
       [] n = 5 -> <<"MPWP", "MAT", "Globe", "Bartlein2011">>
       [] n = 6 -> <<"EECO", "MAT", "Globe", "Bartlein2011">>
       [] n = ncols + 4 -> <<"MH", "MTCO", "WesternEurope", "Bartlein2011">>
       [] n = 2*ncols + 4 -> <<"LGM", "MTCO", "WesternEurope", "Cleator2019">>
       [] n = ncols + 5 -> <<"MH", "MTWA", "WesternEurope", "Bartlein2011">>
       [] n = 2*ncols + 5 -> <<"LGM", "MTWA", "WesternEurope", "Cleator2019">>
       [] n = ncols + 6 -> <<"MH", "MAP", "WesternEurope", "Bartlein2011">>
       [] n = 2*ncols + 6 -> <<"LGM", "MAP", "WesternEurope", "Cleator2019">>
       [] n = ncols + 1 -> <<"MH", "MTCO", "NAmerica", "Bartlein2011">>
       [] n = 2*ncols + 1 -> <<"LGM", "MTCO", "NAmerica", "Cleator2019">>
       [] n = ncols + 2 -> <<"MH", "MTWA", "NAmerica", "Bartlein2011">>
       [] n = 2*ncols + 2 -> <<"LGM", "MTWA", "NAmerica", "Cleator2019">>
       [] n = ncols + 3 -> <<"MH", "MAP", "NAmerica", "Bartlein2011">>
       [] n = 2*ncols + 3 -> <<"LGM", "MAP", "NAmerica", "Cleator2019">>
       [] n = ncols + 7 -> <<"MH", "MAP", "WestAfrica", "Bartlein2011">>
       [] n = 2*ncols + 7 -> <<"LGM", "MAP", "WestAfrica", "Cleator2019">>]

\* the order in which the keys were inserted (lines 668-686)
sp_insertion_order ==
  <<2, 3, 4, 5, 6, 12, 20, 13, 21, 14, 22, 9, 17, 10, 18, 11, 19, 15, 23>>

\* dict.keys() of python 2 returns the keys in the order of the hash table.
\* For CPython 2.7 on a 64-bit platform the tuple hash and the probing
\* sequence give the first order below; the language leaves the order open,
\* so the insertion order (the order of PyPy) and the order that starts after
\* the five Globe panels and ends with them stand for other builds.
sp_cpython_order ==
  <<10, 17, 22, 4, 11, 18, 23, 5, 12, 19, 15, 6, 13, 20, 2, 9, 14, 21, 3>>

Rotate(s, n) == [k \in 1..Len(s) |-> s[((k + n - 1) % Len(s)) + 1]]

KeyOrders == {sp_cpython_order, sp_insertion_order, Rotate(sp_insertion_order, 5)}

Line(kind, label, val, valerr) == [kind |-> kind, label |-> label, val |-> val, valerr |-> valerr]

ReportHeader(title) ==
  <<Line("title", title, "", ""), Line("creator", "Masa Kageyama, LSCE, France", "", ""),
    Line("sep", "", "", "")>>

Fig344Report == "IPCC_Fig3.44_numerical_values"

Fig32aReport == "IPCC_Fig3.2a_numerical_values"

\* open(name, 'w'): the file is created or truncated
f_open(files, name, firstlines) ==
  [files EXCEPT ![name] = [status |-> "open", lines |-> firstlines, writes_after_close |-> 0]]

\* a write that replaces what the file holds
f_write_over(files, name, ls) == [files EXCEPT ![name].lines = ls]

\* f.write on each line of ls
f_write(files, name, ls) ==
  [files EXCEPT ![name] =
     IF @.status = "open" THEN [@ EXCEPT !.lines = @ \o ls]
     ELSE [@ EXCEPT !.writes_after_close = @ + Len(ls)]]

f_close(files, name) == [files EXCEPT ![name].status = "closed"]

\* lines 694-710
Fig344Open ==
  /\ pc = "fig344_open"
  /\ reports' = f_open(reports, Fig344Report,
                       ReportHeader("Numerical values for IPCC AR6 WGI chapter 3 Figure 3_44"))
  /\ fig' = <<>>
  /\ \E o \in KeyOrders :
       /\ sp_keys = <<>> \/ sp_keys = o
       /\ sp_keys' = o
       /\ sp_list' = o
  /\ isp' = 1
  /\ pc' = "panel"
  /\ UNCHANGED <<err, recomputed, compute_averages_again, mc, store, last_saved, last_reports, figfiles>>
  /\ UNCHANGED <<part1Vars, delta, deltaerr, i, pmipphase, list_pmip4_models2>>

\* dic_res[period][var][region][rds]['reconstructions'][stat], lines 757-758
RecStatPath(period, var, region, rds, stat) ==
  <<period, var, region, rds, "reconstructions", stat>>

\* the same entry of the case modelonrecpts, whatever the case asked for
ModelStatPathOnRecPts(period, var, region, rds, model, case, stat) ==
  <<period, var, region, rds, model, "modelonrecpts", stat>>

\* dic_res[period][var][region][rds][model][case][stat], lines 796, 812, 813
ModelStatPath(period, var, region, rds, model, case, stat) ==
  <<period, var, region, rds, model, case, stat>>

\* lines 767-776
PanelModels(period, old) ==
  CASE period = "LGM" -> list_models_lgm
    [] period = "MH" -> list_models_mh
    [] period = "LIG" -> SetToSeq(dic_global_mean_lig)
    [] period = "MPWP" -> SetToSeq(dic_global_mean_plio)
    [] period = "EECO" -> SetToSeq(dic_global_mean_eocene)
    [] OTHER -> old

GlobalMeanTable(period) ==
  CASE period = "LIG" -> dic_global_mean_lig
    [] period = "MPWP" -> dic_global_mean_plio
    [] period = "EECO" -> dic_global_mean_eocene

\* lines 787-794: the index of the model in the last list that holds it
IndexInLists(model, old) ==
  LET i1 == IF model \in Range(list_pmip3_models_lgm) THEN IndexOf(list_pmip3_models_lgm, model) ELSE old
      i2 == IF model \in Range(list_pmip4_models_lgm) THEN IndexOf(list_pmip4_models_lgm, model) ELSE i1
      i3 == IF model \in Range(list_pmip3_models_mh) THEN IndexOf(list_pmip3_models_mh, model) ELSE i2
  IN IF model \in Range(list_pmip4_models_mh) THEN IndexOf(list_pmip4_models_mh, model) ELSE i3

\* lines 825-854 and 1013-1042: the group whose style the model is drawn in
ModelGroup(model, pmip4_models2) ==
  IF model \in Range(list_cmip6_models) THEN "CMIP6"
  ELSE IF model \in Range(pmip4_models2) THEN "PMIP4"
  ELSE "PMIP3"

\* the three groups drawn at the same x position
GroupStyleSameX(group, model) ==
  CASE group = "CMIP6" -> [xm |-> 2, col |-> "color/" \o model, incol |-> "color/" \o model]
    [] group = "PMIP4" -> [xm |-> 2, col |-> "gray", incol |-> "gray"]
    [] group = "PMIP3" -> [xm |-> 2, col |-> "gray", incol |-> "white"]

\* x position, edge colour and fill colour of the three groups
GroupStyle(group, model) ==
  CASE group = "CMIP6" -> [xm |-> 2, col |-> "color/" \o model, incol |-> "color/" \o model]
    [] group = "PMIP4" -> [xm |-> 2, col |-> "gray", incol |-> "gray"]
    [] group = "PMIP3" -> [xm |-> 1, col |-> "gray", incol |-> "white"]

ModelLabel(model) == IF model \in DOMAIN dic_labels THEN dic_labels[model] ELSE model

\* lines 795-818: the value and the error bar of a model; <<err, delta, deltaerr, pmipphase>>
ModelValue(a, model, period, var, region, rds, d) ==
  IF region = "Globe"
  THEN IF period \in {"MH", "LGM"}
       THEN LET p == ModelStatPath(period, var, region, rds, model, "allmodelpts", "delta_mean")
                ph1 == IF model \in Range(list_pmip3_models) THEN "PMIP3" ELSE a.pmipphase
                ph2 == IF model \in Range(list_pmip4_models) THEN "PMIP4" ELSE ph1
            IN IF ~HasPath(d, p) THEN <<"KeyError", a.delta, a.deltaerr, a.pmipphase>>
               ELSE IF ph2 = UNDEF THEN <<"NameError", GetPath(d, p).val, ZERO, ph2>>
               ELSE <<"none", GetPath(d, p).val, ZERO, ph2>>
       ELSE IF period \in {"LIG", "MPWP", "EECO"}
       THEN IF model \notin GlobalMeanTable(period)
            THEN <<"KeyError", a.delta, a.deltaerr, a.pmipphase>>
            ELSE <<"none", Join(<<"table", period, model>>), ZERO, "PMIP4">>
       ELSE <<"none", a.delta, a.deltaerr, a.pmipphase>>
  ELSE LET pm == ModelStatPath(period, var, region, rds, model, "modelonrecpts", "delta_mean")
           ps == ModelStatPath(period, var, region, rds, model, "modelonrecpts", "delta_std")
       IN IF ~HasPath(d, pm) \/ ~HasPath(d, ps)
          THEN <<"KeyError", a.delta, a.deltaerr, a.pmipphase>>
          ELSE <<"none", GetPath(d, pm).val, GetPath(d, ps).val, a.pmipphase>>

\* lines 786-866: one model of a panel.  a holds the names the loop assigns,
\* the lines written and the points drawn so far
ModelStep(a, model, period, var, region, rds, models, d) ==
  LET i1 == IndexInLists(model, a.i)
      mv == ModelValue(a, model, period, var, region, rds, d)
      l2 == IF period \in {"MH", "LGM"} THEN list_pmip4_models ELSE models
      group == ModelGroup(model, l2)
      st == GroupStyle(group, model)
      a1 == [a EXCEPT !.i = i1, !.delta = mv[2], !.deltaerr = mv[3], !.pmipphase = mv[4]]
      a2 == [a1 EXCEPT !.list_pmip4_models2 = l2]
  IN IF mv[1] # "none" THEN [a1 EXCEPT !.err = mv[1]]
     ELSE IF group = "CMIP6" /\ model \notin dic_color_models THEN [a2 EXCEPT !.err = "KeyError"]
     ELSE IF mv[2] = UNDEF \/ mv[3] = UNDEF \/ i1 = -1 THEN [a2 EXCEPT !.err = "NameError"]
     ELSE [a2 EXCEPT
             !.list_ens_means_cmip6 = IF group = "CMIP6" THEN Append(@, mv[2]) ELSE @,
             !.list_ens_means_pmip4 = IF group = "PMIP4" THEN Append(@, mv[2]) ELSE @,
             !.list_ens_means_pmip3 = IF group = "PMIP3" THEN Append(@, mv[2]) ELSE @,
             !.points = Append(@, [model |-> model, group |-> group, x |-> st.xm,
                                   y |-> mv[2], yerr |-> mv[3],
                                   mec |-> st.col, mfc |-> st.incol]),
             !.lines = Append(@, Line("model", ModelLabel(model), mv[2], mv[3]))]

RECURSIVE ModelLoop(_, _, _, _, _, _, _, _)
ModelLoop(a, k, period, var, region, rds, models, d) ==
  IF k > Len(models) \/ a.err # "none" THEN a
  ELSE ModelLoop(ModelStep(a, models[k], period, var, region, rds, models, d),
                 k + 1, period, var, region, rds, models, d)

\* N.mean of a list of values; the mean of an empty list is nan
RECURSIVE Plus(_)
Plus(l) == IF Len(l) = 1 THEN l[1] ELSE l[1] \o "+" \o Plus(Tail(l))

N_mean(l) == IF l = <<>> THEN "nan" ELSE "mean(" \o Plus(l) \o ")"

\* lines 752-764: band of the reconstructions and the report line
\* [err, delta, deltaerr, lo, hi]
RecValues(period, var, region, rds, d, olddelta, olddeltaerr) ==
  IF region = "Globe"
  THEN IF period \notin DOMAIN darrell_s_delta_gsat_estimates
       THEN [err |-> "KeyError", delta |-> olddelta, deltaerr |-> olddeltaerr, lo |-> "", hi |-> ""]
       ELSE [err |-> IF olddelta = UNDEF \/ olddeltaerr = UNDEF THEN "NameError" ELSE "none",
             delta |-> olddelta, deltaerr |-> olddeltaerr,
             lo |-> Join(<<"assessed", period, "min">>), hi |-> Join(<<"assessed", period, "max">>)]
  ELSE LET pm == RecStatPath(period, var, region, rds, "mean")
           ps == RecStatPath(period, var, region, rds, "std")
       IN IF ~HasPath(d, pm) \/ ~HasPath(d, ps)
          THEN [err |-> "KeyError", delta |-> olddelta, deltaerr |-> olddeltaerr, lo |-> "", hi |-> ""]
          ELSE [err |-> "none", delta |-> GetPath(d, pm).val, deltaerr |-> GetPath(d, ps).val,
                lo |-> GetPath(d, pm).val \o "-" \o GetPath(d, ps).val,
                hi |-> GetPath(d, pm).val \o "+" \o GetPath(d, ps).val]

\* lines 713-917: one panel; the names assigned, the lines written and the
\* subplot drawn, up to the first exception if there is one
PanelResult(sp, d, old) ==
  LET period == dic_summ_plots[sp][1]
      var == dic_summ_plots[sp][2]
      region == dic_summ_plots[sp][3]
      rds == dic_summ_plots[sp][4]
      head == <<Line("region", Join(<<region, var, period>>), "", "")>>
      a0 == [old EXCEPT !.lines = head, !.points = <<>>, !.err = "none",
                        !.list_ens_means_cmip6 = <<>>, !.list_ens_means_pmip4 = <<>>,
                        !.list_ens_means_pmip3 = <<>>, !.lo = "", !.hi = "",
                        !.sp = sp, !.star_ar5 = "", !.star_ar6 = ""]
  IN IF rds \notin DOMAIN dic_labels THEN [a0 EXCEPT !.err = "KeyError"]
     ELSE
     LET rv == RecValues(period, var, region, rds, d, old.delta, old.deltaerr)
         a1 == [a0 EXCEPT !.lines = @ \o <<Line("rds", dic_labels[rds], "", "")>>,
                          !.delta = rv.delta, !.deltaerr = rv.deltaerr,
                          !.lo = rv.lo, !.hi = rv.hi, !.err = rv.err]
     IN IF rv.err # "none" THEN a1
        ELSE
        LET models == PanelModels(period, old.list_models)
            a2 == [a1 EXCEPT !.lines = @ \o <<Line("rec", "reconstructions, average (std)",
                                                     rv.delta, rv.deltaerr),
                                                Line("hdr", "model results - average (std)", "", "")>>,
                             !.list_models = models]
            a3 == ModelLoop(a2, 1, period, var, region, rds, models, d)
            ens_mean_ar6 == N_mean(a3.list_ens_means_cmip6 \o a3.list_ens_means_pmip4)
            ens_mean_ar5 == N_mean(a3.list_ens_means_pmip3)
        IN IF a3.err # "none" THEN a3
           ELSE [a3 EXCEPT !.star_ar5 = ens_mean_ar5, !.star_ar6 = ens_mean_ar6,
                           !.lines = @ \o <<Line("ens", "Ensemble mean PMIP3-CMIP5", ens_mean_ar5, ""),
                                            Line("ens", "Ensemble mean PMIP4-CMIP6", ens_mean_ar6, ""),
                                            Line("sep", "", "", "")>>]

\* the names of the script that the panel loop reads and assigns
PanelNames ==
  [delta |-> delta, deltaerr |-> deltaerr, i |-> i, pmipphase |-> pmipphase,
   list_pmip4_models2 |-> list_pmip4_models2, list_models |-> list_models,
   lines |-> <<>>, points |-> <<>>, err |-> "none",
   list_ens_means_cmip6 |-> <<>>, list_ens_means_pmip4 |-> <<>>, list_ens_means_pmip3 |-> <<>>,
   lo |-> "", hi |-> "", sp |-> 0, star_ar5 |-> "", star_ar6 |-> ""]

Subplot(a) ==
  [sp |-> a.sp, lo |-> a.lo, hi |-> a.hi, points |-> a.points,
   star_ar5 |-> a.star_ar5, star_ar6 |-> a.star_ar6,
   list_ens_means_cmip6 |-> a.list_ens_means_cmip6,
   list_ens_means_pmip4 |-> a.list_ens_means_pmip4,
   list_ens_means_pmip3 |-> a.list_ens_means_pmip3]

\* lines 713-917
Panel ==
  /\ pc = "panel"
  /\ LET a == PanelResult(sp_list[isp], dic_res, PanelNames)
     IN /\ reports' = f_write(reports, Fig344Report, a.lines)
        /\ fig' = Append(fig, Subplot(a))
        /\ delta' = a.delta
        /\ deltaerr' = a.deltaerr
        /\ i' = a.i
        /\ pmipphase' = a.pmipphase
        /\ list_pmip4_models2' = a.list_pmip4_models2
        /\ list_models' = a.list_models
        /\ err' = a.err
        /\ IF a.err # "none" THEN pc' = "error" /\ isp' = isp
           ELSE IF isp < Len(sp_list) THEN pc' = "panel" /\ isp' = isp + 1
           ELSE pc' = "fig344_save" /\ isp' = isp
  /\ UNCHANGED <<recomputed, compute_averages_again, mc, sp_keys, store, last_saved, last_reports, figfiles, sp_list>>
  /\ UNCHANGED <<dic_res, it, im, openfiles, fnamepi, fnamepast, vpi, vpast>>

\* fig.savefig(name): the file of that name holds the figure as it is drawn so far
savefig(files, name, figure) ==
  {g \in files : g.name # name} \cup {[name |-> name, subplots |-> Len(figure)]}

\* Figure 3.44 saved without its pdf copy
Fig344SaveNoPdf ==
  /\ pc = "fig344_save"
  /\ figfiles' = savefig(figfiles, "DMC_MH_LGM_3_44_with_global_means", fig)
  /\ reports' = f_close(reports, Fig344Report)
  /\ pc' = IF plot_deltaTland_vs_deltaTocean = "yes" THEN "fig32a_open" ELSE "done"
  /\ UNCHANGED <<err, recomputed, compute_averages_again, mc, sp_keys, store, last_saved, last_reports>>
  /\ UNCHANGED <<part1Vars, part2Vars>>

\* lines 919-922
Fig344Save ==
  /\ pc = "fig344_save"
  /\ figfiles' = savefig(savefig(figfiles, "DMC_MH_LGM_3_44_with_global_means", fig),
                         "DMC_MH_LGM_3_44_with_global_means.pdf", fig)
  /\ reports' = f_close(reports, Fig344Report)
  /\ pc' = IF plot_deltaTland_vs_deltaTocean = "yes" THEN "fig32a_open" ELSE "done"
  /\ UNCHANGED <<err, recomputed, compute_averages_again, mc, sp_keys, store, last_saved, last_reports>>
  /\ UNCHANGED <<part1Vars, part2Vars>>


(***************************************************************************)
(* Part II, Figure 3.2a (lines 928-1071)                                   *)
(***************************************************************************)
\* lines 932-957: report file, figure and its subplot pl1 = add_subplot(2,1,1)
Fig32aOpen ==
  /\ pc = "fig32a_open"
  /\ reports' = f_open(reports, Fig32aReport,
                       ReportHeader("Numerical values for IPCC AR6 WGI chapter 3 Figure 3_2a"))
  /\ fig' = <<[sp |-> 1, lo |-> "", hi |-> "", points |-> <<>>, star_ar5 |-> "", star_ar6 |-> "",
               list_ens_means_cmip6 |-> <<>>, list_ens_means_pmip4 |-> <<>>,
               list_ens_means_pmip3 |-> <<>>]>>
  /\ pc' = "fig32a_rec"
  /\ UNCHANGED <<err, recomputed, compute_averages_again, mc, sp_keys, store, last_saved, last_reports, figfiles>>
  /\ UNCHANGED <<part1Vars, sp_list, isp, delta, deltaerr, i, pmipphase, list_pmip4_models2>>

rdsl == "Cleator2019"

rdso == "Tierney2019"

\* the dic_res entries read at lines 966-969, for the reconstructions, and at
\* lines 1007-1010, for a model
Fig32aRecPaths ==
  [O |-> RecStatPath("LGM", "MATocean", "Globe", rdso, "mean"),
   Oerr |-> RecStatPath("LGM", "MATocean", "Globe", rdso, "std"),
   L |-> RecStatPath("LGM", "MAT", "Globe", rdsl, "mean"),
   Lerr |-> RecStatPath("LGM", "MAT", "Globe", rdsl, "std")]

Fig32aModelPaths(model) ==
  [O |-> ModelStatPath("LGM", "MATocean", "Globe", rdso, model, "modelonrecpts", "delta_mean"),
   Oerr |-> ModelStatPath("LGM", "MATocean", "Globe", rdso, model, "modelonrecpts", "delta_std"),
   L |-> ModelStatPath("LGM", "MAT", "Globe", rdsl, model, "modelonrecpts", "delta_mean"),
   Lerr |-> ModelStatPath("LGM", "MAT", "Globe", rdsl, model, "modelonrecpts", "delta_std")]

HasAll(d, paths) == \A k \in DOMAIN paths : HasPath(d, paths[k])

\* lines 960-1003: the reconstructions, drawn and written
Fig32aRec ==
  /\ pc = "fig32a_rec"
  /\ IF ~HasAll(dic_res, Fig32aRecPaths) \/ rdsl \notin DOMAIN dic_labels THEN Raise("KeyError")
     ELSE IF rdso \notin DOMAIN dic_labels THEN Raise("NameError")
     ELSE LET v == [k \in DOMAIN Fig32aRecPaths |-> GetPath(dic_res, Fig32aRecPaths[k]).val]
          IN /\ fig' = [fig EXCEPT ![1].points =
                          Append(@, [model |-> dic_labels[rdsl] \o "/" \o dic_labels[rdso],
                                     group |-> "reconstructions", x |-> v.O, xerr |-> v.Oerr,
                                     y |-> v.L, yerr |-> v.Lerr, mec |-> "black", mfc |-> "black"]),
                                   ![1].lo = v.L \o "-" \o v.Lerr, ![1].hi = v.L \o "+" \o v.Lerr]
             /\ reports' = f_write(reports, Fig32aReport,
                  <<Line("region", "Globe", "", ""),
                    Line("land", dic_labels[rdsl], v.L, v.Lerr),
                    Line("ocean", dic_labels[rdso], v.O, v.Oerr),
                    Line("hdr", "model results (model output only taken over reconstruction sites)", "", "")>>)
             /\ pc' = "fig32a_models"
             /\ UNCHANGED <<err, recomputed, compute_averages_again, mc, sp_keys, store, last_saved, last_reports, figfiles>>
             /\ UNCHANGED <<part1Vars, sp_list, isp, delta, deltaerr, i, pmipphase, list_pmip4_models2>>

\* lines 1006-1053: one model of Figure 3.2a; a = [err, points, lines]
Fig32aModelStep(a, model, d, pmip4_models2) ==
  IF ~HasAll(d, Fig32aModelPaths(model)) THEN [a EXCEPT !.err = "KeyError"]
  ELSE IF model \notin Range(list_cmip6_models) /\ pmip4_models2 = <<UNDEF>>
  THEN [a EXCEPT !.err = "NameError"]
  ELSE LET v == [k \in DOMAIN Fig32aModelPaths(model) |-> GetPath(d, Fig32aModelPaths(model)[k]).val]
           group == ModelGroup(model, pmip4_models2)
           st == GroupStyle(group, model)
       IN IF group = "CMIP6" /\ model \notin dic_color_models THEN [a EXCEPT !.err = "KeyError"]
          ELSE [a EXCEPT
                  !.points = Append(@, [model |-> model, group |-> group, x |-> v.O, xerr |-> v.Oerr,
                                        y |-> v.L, yerr |-> v.Lerr, mec |-> st.col, mfc |-> st.incol]),
                  !.lines = Append(@, [kind |-> "model", label |-> ModelLabel(model),
                                       val |-> v.L, valerr |-> v.Lerr, val2 |-> v.O, val2err |-> v.Oerr])]

RECURSIVE Fig32aModelLoop(_, _, _, _, _)
Fig32aModelLoop(a, k, models, d, pmip4_models2) ==
  IF k > Len(models) \/ a.err # "none" THEN a
  ELSE Fig32aModelLoop(Fig32aModelStep(a, models[k], d, pmip4_models2), k + 1, models, d, pmip4_models2)

\* lines 1006-1054
Fig32aModels ==
  /\ pc = "fig32a_models"
  /\ LET a == Fig32aModelLoop([err |-> "none", points |-> <<>>, lines |-> <<>>], 1,
                              list_models_lgm, dic_res, list_pmip4_models2)
     IN /\ fig' = [fig EXCEPT ![1].points = @ \o a.points]
        /\ err' = a.err
        /\ reports' = f_write(reports, Fig32aReport,
                              a.lines \o IF a.err = "none" THEN <<Line("sep", "", "", "")>> ELSE <<>>)
        /\ pc' = IF a.err = "none" THEN "fig32a_save" ELSE "error"
  /\ UNCHANGED <<recomputed, compute_averages_again, mc, sp_keys, store, last_saved, last_reports, figfiles>>
  /\ UNCHANGED <<part1Vars, sp_list, isp, delta, deltaerr, i, pmipphase, list_pmip4_models2>>

\* lines 1063-1071
Fig32aSave ==
  /\ pc = "fig32a_save"
  /\ figfiles' = savefig(savefig(figfiles, "deltaTocean_vs_deltaTland_CMIP5_CMIP6_recpts_Globe", fig),
                         "deltaTocean_vs_deltaTland_CMIP5_CMIP6_recpts_Globe.pdf", fig)
  /\ reports' = f_close(reports, Fig32aReport)
  /\ last_reports' = IF compute_averages_again = "yes" THEN reports' ELSE last_reports
  /\ pc' = "done"
  /\ UNCHANGED <<err, recomputed, compute_averages_again, mc, sp_keys, store, last_saved>>
  /\ UNCHANGED <<part1Vars, part2Vars>>

(***************************************************************************)
(* Executions of the script                                                *)
(***************************************************************************)
MaxRecompute == 1

NoFile == [status |-> "absent", lines |-> <<>>, writes_after_close |-> 0]

\* the names of a python process that has just started
Fresh ==
  [dic_res |-> EmptyDict, it |-> 0, im |-> 0, list_models |-> <<UNDEF>>, openfiles |-> {},
   fnamepi |-> UNDEF, fnamepast |-> UNDEF, vpi |-> UNDEF, vpast |-> UNDEF,
   sp_list |-> <<>>, isp |-> 0, delta |-> UNDEF, deltaerr |-> UNDEF, i |-> -1,
   pmipphase |-> UNDEF, list_pmip4_models2 |-> <<UNDEF>>, fig |-> <<>>]

\* no computation is followed in detail
McOff == [stage |-> "off"]

\* the script variables when the first execution starts
ScriptStart ==
  /\ pc = "start"
  /\ err = "none"
  /\ recomputed = IF compute_averages_again = "yes" THEN 1 ELSE 0
  /\ sp_keys = <<>>
  /\ store = EmptyDict
  /\ last_saved = EmptyDict
  /\ reports = [n \in {Fig344Report, Fig32aReport} |-> NoFile]
  /\ last_reports = reports
  /\ figfiles = {}
  /\ dic_res = Fresh.dic_res
  /\ it = Fresh.it
  /\ im = Fresh.im
  /\ list_models = Fresh.list_models
  /\ openfiles = Fresh.openfiles
  /\ fnamepi = Fresh.fnamepi
  /\ fnamepast = Fresh.fnamepast
  /\ vpi = Fresh.vpi
  /\ vpast = Fresh.vpast
  /\ sp_list = Fresh.sp_list
  /\ isp = Fresh.isp
  /\ delta = Fresh.delta
  /\ deltaerr = Fresh.deltaerr
  /\ i = Fresh.i
  /\ pmipphase = Fresh.pmipphase
  /\ list_pmip4_models2 = Fresh.list_pmip4_models2
  /\ fig = Fresh.fig

Init ==
  /\ compute_averages_again \in {"yes", "no"}
  /\ ScriptStart
  /\ mc = McOff

\* a new python process: the files on disk remain, the names of the previous
\* process are gone
NewProcess ==
  /\ pc \in {"done", "error"}
  /\ pc' = "start"
  /\ err' = "none"
  /\ dic_res' = Fresh.dic_res
  /\ it' = Fresh.it
  /\ im' = Fresh.im
  /\ list_models' = Fresh.list_models
  /\ openfiles' = Fresh.openfiles
  /\ fnamepi' = Fresh.fnamepi
  /\ fnamepast' = Fresh.fnamepast
  /\ vpi' = Fresh.vpi
  /\ vpast' = Fresh.vpast
  /\ sp_list' = Fresh.sp_list
  /\ isp' = Fresh.isp
  /\ delta' = Fresh.delta
  /\ deltaerr' = Fresh.deltaerr
  /\ i' = Fresh.i
  /\ pmipphase' = Fresh.pmipphase
  /\ list_pmip4_models2' = Fresh.list_pmip4_models2
  /\ fig' = Fresh.fig
  /\ UNCHANGED <<sp_keys, diskVars, mc>>

\* the script is run again with compute_averages_again = 'no'
RunAgainNo ==
  /\ NewProcess
  /\ compute_averages_again' = "no"
  /\ recomputed' = recomputed

\* the script is run again with compute_averages_again = 'yes' (the averages
\* are recomputed at most MaxRecompute times)
RunAgainYes ==
  /\ NewProcess
  /\ recomputed < MaxRecompute
  /\ compute_averages_again' = "yes"
  /\ recomputed' = recomputed + 1

scriptVars == <<sysVars, sp_keys, diskVars, part1Vars, part2Vars>>

vars == <<scriptVars, mc>>

Next ==
  \/ LoadSaved \/ InitDicRes
  \/ RecOpen \/ RecRead \/ RecClose \/ RecMonteCarlo
  \/ PiOpen \/ PiRead \/ PiClose \/ PastOpen \/ PastRead \/ PastClose
  \/ ModelStats \/ SaveRes
  \/ Fig344Open \/ Panel \/ Fig344Save
  \/ Fig32aOpen \/ Fig32aRec \/ Fig32aModels \/ Fig32aSave
  \/ RunAgainNo \/ RunAgainYes

Spec == Init /\ [][Next]_vars


(***************************************************************************)
(* The plotting stage on its own.  Part1Result is dic_res as the loops of  *)
(* Part I leave it (Part1Complete states that the step by step execution   *)
(* of Spec arrives there); SpecPlot starts where the loops end, and then   *)
(* saves, plots, and is run again with compute_averages_again = 'no'.      *)
(***************************************************************************)
RECURSIVE ModelsResult(_, _, _, _)
ModelsResult(d, rp, models, k) ==
  IF k > Len(models) \/ ~HasPath(d, rp) THEN d
  ELSE LET mpath == rp \o <<models[k]>>
           d1 == SetPath(d, mpath, EmptyDict)
       IN ModelsResult(StoreStats(InitCases(d1, mpath, dic_stat_vars), mpath, dic_stat_vars),
                       rp, models, k + 1)

RECURSIVE ItersResult(_, _)
ItersResult(d, k) ==
  IF k > Len(Part1Iters) \/ DOMAIN d = {} THEN d
  ELSE LET t == Part1Iters[k]
           rp == <<t[1], t[4], t[2], t[3]>>
       IN ItersResult(ModelsResult(StoreRec(StoreMask(d, rp), rp), rp, ModelsOfPeriod(t[1]), 1), k + 1)

Part1Result == ItersResult(InitialDicRes, 1)

\* the state in which the step by step execution of Part I ends
Part1End ==
  LET last == Part1Iters[Len(Part1Iters)]
      models == ModelsOfPeriod(last[1])
      name(expe) == FileName(last[1], expe, models[Len(models)], last[4], UNDEF)[2]
  IN /\ dic_res = Part1Result
     /\ it = Len(Part1Iters)
     /\ im = Len(models)
     /\ list_models = models
     /\ openfiles = {}
     /\ fnamepi = name("PI")
     /\ fnamepast = name(last[1])
     /\ vpi = Join(<<fnamepi, last[2]>>)
     /\ vpast = Join(<<fnamepast, last[2]>>)

Part1Complete == pc = "save" => Part1End

InitPlot ==
  /\ pc = "save"
  /\ err = "none"
  /\ compute_averages_again = "yes"
  /\ recomputed = 1
  /\ sp_keys = <<>>
  /\ store = EmptyDict
  /\ last_saved = EmptyDict
  /\ reports = [n \in {Fig344Report, Fig32aReport} |-> NoFile]
  /\ last_reports = reports
  /\ figfiles = {}
  /\ mc = McOff
  /\ Part1End
  /\ sp_list = Fresh.sp_list
  /\ isp = Fresh.isp
  /\ delta = Fresh.delta
  /\ deltaerr = Fresh.deltaerr
  /\ i = Fresh.i
  /\ pmipphase = Fresh.pmipphase
  /\ list_pmip4_models2 = Fresh.list_pmip4_models2
  /\ fig = Fresh.fig

NextPlot ==
  \/ SaveRes
  \/ LoadSaved
  \/ Fig344Open \/ Panel \/ Fig344Save
  \/ Fig32aOpen \/ Fig32aRec \/ Fig32aModels \/ Fig32aSave
  \/ RunAgainNo

SpecPlot == InitPlot /\ [][NextPlot]_vars

(***************************************************************************)
(* What Part II reads from dic_res                                         *)
(***************************************************************************)
\* lines 752-818: the entries read by the panel of subplot sp
PanelReads(sp) ==
  LET period == dic_summ_plots[sp][1]
      var == dic_summ_plots[sp][2]
      region == dic_summ_plots[sp][3]
      rds == dic_summ_plots[sp][4]
      models == Range(PanelModels(period, <<>>))
  IN IF region = "Globe"
     THEN IF period \in {"MH", "LGM"}
          THEN {ModelStatPath(period, var, region, rds, m, "allmodelpts", "delta_mean") : m \in models}
          ELSE {}
     ELSE {RecStatPath(period, var, region, rds, st) : st \in {"mean", "std"}}
          \cup {ModelStatPath(period, var, region, rds, m, "modelonrecpts", st) :
                  m \in models, st \in {"delta_mean", "delta_std"}}

\* lines 966-969 and 1007-1010
Fig32aReads ==
  Range(Fig32aRecPaths) \cup UNION {Range(Fig32aModelPaths(m)) : m \in Range(list_models_lgm)}

Part2Reads == UNION {PanelReads(sp) : sp \in DOMAIN dic_summ_plots} \cup Fig32aReads

\* the iteration of Part I that fills dic_res[period][var][region][rds], 0 if none
IterOf(p) ==
  IF \E k \in DOMAIN Part1Iters : Part1Iters[k] = <<p[1], p[3], p[4], p[2]>>
  THEN CHOOSE k \in DOMAIN Part1Iters : Part1Iters[k] = <<p[1], p[3], p[4], p[2]>>
  ELSE 0

Part1Pcs ==
  {"rec_open", "rec_read", "rec_close", "rec_mc", "pi_open", "pi_read", "pi_close",
   "past_open", "past_read", "past_close", "model_stats"}

Part2Pcs ==
  {"fig344_open", "panel", "fig344_save", "fig32a_open", "fig32a_rec", "fig32a_models",
   "fig32a_save", "done"}

\* the entries read by Part II, by the iteration of Part I that fills them
ReadsOfIter == [k \in 0..Len(Part1Iters) |-> {p \in Part2Reads : IterOf(p) = k}]

\* number of iterations of Part I that are finished
DoneIters ==
  IF pc = "start" THEN 0 ELSE IF pc \in Part1Pcs THEN it - 1 ELSE Len(Part1Iters)

\* the positions between two iterations of Part I, and after the last one
BetweenIters == {"rec_open", "save"} \cup Part2Pcs

YesRun == compute_averages_again = "yes"

ReportDone(name) == reports[name].status = "closed" /\ Len(reports[name].lines) > 3

(***************************************************************************)
(* Claims                                                                  *)
(***************************************************************************)
\* C1: in an execution with compute_averages_again = 'yes', every dic_res
\* entry that Part II reads is filled by an iteration of Part I and holds a
\* value (not a dictionary) once that iteration is finished, hence before
\* Part II starts; and Part II never fails on a missing key.
C1_ReadsWritten ==
  YesRun =>
    /\ err # "KeyError"
    /\ ReadsOfIter[0] = {}
    /\ pc \in BetweenIters =>
         \A k \in 1..DoneIters : \A p \in ReadsOfIter[k] :
            HasPath(dic_res, p) /\ IsLeaf(GetPath(dic_res, p))

\* C1 witness: a recomputing execution has drawn and reported both figures
C1_Witness ==
  YesRun /\ pc = "done" /\ ReportDone(Fig344Report) /\ ReportDone(Fig32aReport)

\* the 'reconstructions, average (std)' lines of the report of Figure 3.44,
\* one per panel, in the order of the panels
IsRecLine(l) == l.kind = "rec"

RecLines == SelectSeq(reports[Fig344Report].lines, IsRecLine)

\* the reconstruction values drawn in the panel of subplot sp: the mean and
\* the standard deviation of dic_res or, in a Globe panel, the assessed range
OwnRecValues(sp) ==
  LET period == dic_summ_plots[sp][1]
      var == dic_summ_plots[sp][2]
      region == dic_summ_plots[sp][3]
      rds == dic_summ_plots[sp][4]
      pm == RecStatPath(period, var, region, rds, "mean")
      ps == RecStatPath(period, var, region, rds, "std")
  IN (IF HasPath(last_saved, pm) /\ HasPath(last_saved, ps)
      THEN {<<GetPath(last_saved, pm).val, GetPath(last_saved, ps).val>>} ELSE {})
     \cup
     (IF region = "Globe" /\ period \in DOMAIN darrell_s_delta_gsat_estimates
      THEN {<<Join(<<"assessed", period, "min">>), Join(<<"assessed", period, "max">>)>>}
      ELSE {})

\* C2: the 'reconstructions, average (std)' line of every panel of Figure
\* 3.44 carries the reconstruction value and uncertainty of the panel's own
\* (period, variable, region, reconstruction data set), whatever the order of
\* the panels.  (The code writes, in a Globe panel, the delta and deltaerr left
\* by the last model of the previous panel.)
C2_RecLineOwnValues ==
  \A j \in 1..Len(RecLines) :
     <<RecLines[j].val, RecLines[j].valerr>> \in OwnRecValues(sp_keys[j])

\* the files of the two figures, each saved as an image and as a pdf
Fig344Files ==
  {"DMC_MH_LGM_3_44_with_global_means", "DMC_MH_LGM_3_44_with_global_means.pdf"}

Fig32aFiles ==
  {"deltaTocean_vs_deltaTland_CMIP5_CMIP6_recpts_Globe",
   "deltaTocean_vs_deltaTland_CMIP5_CMIP6_recpts_Globe.pdf"}

FigNames == {g.name : g \in figfiles}

\* C6: an execution with compute_averages_again # 'yes' works in Part II on
\* exactly the dic_res that the last recomputing execution saved under the key
\* 'dic_res' of the store (same nested paths, same values), and when it ends
\* the numeric reports are those the recomputing execution wrote.
C6_SavedResultsReused ==
  (~YesRun /\ pc \in Part2Pcs) =>
     /\ dic_res = last_saved
     /\ shelve_getitem(store, StoreKey) = last_saved
     /\ pc = "done" => reports = last_reports

\* C6 witness: a second execution, not recomputing, has ended with the saved
\* results and with both reports written
C6_Witness ==
  /\ ~YesRun /\ pc = "done" /\ dic_res = last_saved /\ dic_res = Part1Result
  /\ ReportDone(Fig344Report) /\ ReportDone(Fig32aReport) /\ reports = last_reports

\* C7: Part I is executed only if compute_averages_again = 'yes'; in any
\* other execution no data file is opened, no field is read, no average is
\* computed (dic_res is empty until it is loaded), and the store is not written.
C7_Part1OnlyIfYes ==
  /\ [](~YesRun =>
          /\ pc \notin Part1Pcs \cup {"save"}
          /\ openfiles = {} /\ it = 0 /\ im = 0
          /\ fnamepi = UNDEF /\ fnamepast = UNDEF /\ vpi = UNDEF /\ vpast = UNDEF
          /\ dic_res \in {EmptyDict, last_saved})
  /\ [][~YesRun => store' = store /\ last_saved' = last_saved]_vars

\* C7 witness: an execution that does not recompute has read the store and ended
C7_Witness ==
  ~YesRun /\ pc = "done" /\ StoreKey \in DOMAIN store /\ dic_res = shelve_getitem(store, StoreKey)

C10_FileDiscipline ==
  /\ Cardinality(openfiles) <= 1
  /\ err # "IOError"
  /\ pc \in {"rec_open", "pi_open", "past_open"} => openfiles = {}
  /\ pc = "rec_read" => openfiles = {"f"}
  /\ pc = "pi_read" => openfiles = {"fpi"}
  /\ pc = "past_read" => openfiles = {"fpast"}
  /\ pc \notin Part1Pcs => openfiles = {}
  /\ \A n \in DOMAIN reports :
       /\ reports[n].writes_after_close = 0
       /\ reports[n].status = "absent" => reports[n].lines = <<>>
       /\ pc = "done" => reports[n].status = "closed"

\* C10 witness: all the iterations of Part I are done, every data file is
\* closed, and both reports are written and closed
C10_Witness ==
  /\ YesRun /\ pc = "done" /\ it = Len(Part1Iters) /\ openfiles = {}
  /\ \A n \in DOMAIN reports : ReportDone(n)


(***************************************************************************)
(* The Monte Carlo average of the reconstructions (lines 479-531) on a     *)
(* grid of NPts cells.  Values are integers (tenths of a degree); an       *)
(* average is a fraction <<numerator, denominator>>; the standard          *)
(* deviation is kept as its square.                                        *)
(***************************************************************************)
NPts == 2

NIterRec == 2

RECURSIVE SeqSum(_)
SeqSum(a) == IF a = <<>> THEN 0 ELSE Head(a) + SeqSum(Tail(a))

FracEq(x, y) == x[1] * y[2] = y[1] * x[2]

\* N.average and the square of N.std of a list of fractions num[k] / den
N_average(num, den) == <<SeqSum(num), Len(num) * den>>

N_std2(num, den) ==
  <<Len(num) * SeqSum([k \in DOMAIN num |-> num[k] * num[k]]) - SeqSum(num) * SeqSum(num),
    Len(num) * Len(num) * den * den>>

\* every value kept, the masked ones too
compressed_all(a, mask) == a

\* a.compressed(): the values that are not masked, in the order of the grid
compressed(a, mask) ==
  LET Unmasked(k) == ~mask[k]
      idx == SelectSeq([k \in DOMAIN a |-> k], Unmasked)
  IN [j \in DOMAIN idx |-> a[idx[j]]]

\* a mask that ignores the mask of the standard errors
mask_of_mean_only(rsemask, rmemask) == rmemask

\* line 494: recmask = rsemask + rmemask, masked where either field is
common_mask(rsemask, rmemask) == [k \in DOMAIN rsemask |-> rsemask[k] \/ rmemask[k]]

\* cdutil.area_weights: the area of cell k of the reconstruction grid
RecArea(k) == k

\* the values that the standard normal deviate of random.gauss takes here
Deviates == {-1, 0, 1}

\* random.gauss(mu, sigma) with arrays mu and sigma: the deviate z is one
\* number, drawn once per call, and the result is the array mu + z*sigma
random_gauss(mu, sigma, z) == [k \in DOMAIN mu |-> mu[k] + z * sigma[k]]

\* the arrays that random.gauss(mu, sigma) can return
GaussSamples(mu, sigma) == {random_gauss(mu, sigma, z) : z \in Deviates}

\* lines 479-483: the fields read from the file of the reconstruction
RecInputs ==
  {[stage |-> "read", rmeorig |-> m, rseorig |-> e, rmemask |-> mm, rsemask |-> em] :
     m \in [1..NPts -> {-1, 2}], e \in [1..NPts -> {1, 2}],
     mm \in [1..NPts -> BOOLEAN], em \in [1..NPts -> BOOLEAN]}

InitRec ==
  /\ compute_averages_again = "yes"
  /\ ScriptStart
  /\ mc \in {x \in RecInputs : \E k \in 1..NPts : ~x.rmemask[k] /\ ~x.rsemask[k]}

\* lines 490-513: common mask, number of points, weights, compressed arrays
RecCompress ==
  /\ mc.stage = "read"
  /\ LET recmask == common_mask(mc.rsemask, mc.rmemask)
         rme == compressed(mc.rmeorig, recmask)
         area == compressed([k \in 1..NPts |-> RecArea(k)], recmask)
     IN mc' = [stage |-> "draw", rmemask |-> mc.rmemask, rsemask |-> mc.rsemask,
               rmeorig |-> mc.rmeorig, rseorig |-> mc.rseorig,
               recmask |-> recmask, nbpts |-> Len(rme),
               rme |-> rme, rse |-> compressed(mc.rseorig, recmask),
               area |-> area, wsum |-> SeqSum(area), rrave |-> <<>>]
  /\ UNCHANGED scriptVars

\* lines 522-523: one realisation, N.sum(random.gauss(rme,rse)*recwei), where
\* recwei[k] = area[k] / wsum; its numerator is kept
RecDraw ==
  /\ mc.stage = "draw"
  /\ Len(mc.rrave) < NIterRec
  /\ \E sample \in GaussSamples(mc.rme, mc.rse) :
       mc' = [mc EXCEPT !.rrave =
                Append(@, SeqSum([k \in DOMAIN sample |-> sample[k] * mc.area[k]]))]
  /\ UNCHANGED scriptVars

\* lines 525-531
RecStore ==
  /\ mc.stage = "draw"
  /\ Len(mc.rrave) = NIterRec
  /\ mc' = [stage |-> "stored", rme |-> mc.rme, rse |-> mc.rse, nbpts |-> mc.nbpts,
            rrave |-> mc.rrave, wsum |-> mc.wsum,
            mean |-> N_average(mc.rrave, mc.wsum), std2 |-> N_std2(mc.rrave, mc.wsum)]
  /\ UNCHANGED scriptVars

NextRec == RecCompress \/ RecDraw \/ RecStore

SpecRec == InitRec /\ [][NextRec]_vars

\* the arrays in which every grid point has a deviate of its own
IndependentSamples(mu, sigma) ==
  {[k \in DOMAIN mu |-> mu[k] + zz[k] * sigma[k]] : zz \in [DOMAIN mu -> Deviates]}

NRecCells == 3

NYears == 2

ModelCellOf(r) == (r + 1) \div 2

\* number of cells of the model grid
NModelCells == ModelCellOf(NRecCells)

ModelArea(c) == SeqSum([r \in 1..NRecCells |-> IF ModelCellOf(r) = c THEN RecArea(r) ELSE 0])

\* a model field: one row of grid cell values per year
Field(a, b, ny) == [y \in 1..ny |-> [c \in 1..NModelCells |-> a * y + b * c * c]]

\* v.regrid(recgrid, regridTool='regrid2'): the area-weighted mean of the
\* model cells under a cell of recgrid, which lies in a single model cell
regrid(v) == [y \in DOMAIN v |-> [r \in 1..NRecCells |-> v[y][ModelCellOf(r)]]]

\* lines 590-591: the 2D mask repeated for each year of the field
repeat_mask(mask, v) == [y \in DOMAIN v |-> mask]

\* cdutil.averager(v, axis='12', weights=['weighted','weighted'],combinewts=1)
\* .compressed(): for each year the area-weighted mean of the cells that are
\* not masked; a year without any such cell is dropped
averager(v, mask, area) ==
  LET year(y) == <<SeqSum(compressed([k \in DOMAIN v[y] |-> v[y][k] * area[k]], mask[y])),
                   SeqSum(compressed(area, mask[y]))>>
      NotMasked(x) == x[2] # 0
  IN SelectSeq([y \in DOMAIN v |-> year(y)], NotMasked)

GridInputs ==
  {[stage |-> "read", rmemask |-> mm, rsemask |-> em, vpi |-> a, vpast |-> b] :
     mm \in [1..NRecCells -> BOOLEAN], em \in [1..NRecCells -> BOOLEAN],
     a \in {Field(1, 2, NYears), Field(0, 3, NYears)},
     b \in {Field(2, 1, NYears + 1), Field(3, 5, NYears + 1)}}

InitGrid ==
  /\ compute_averages_again = "yes"
  /\ ScriptStart
  /\ mc \in {x \in GridInputs : \E k \in 1..NRecCells : ~x.rmemask[k] /\ ~x.rsemask[k]}

\* lines 490-498: the mask kept for the models
GridMask ==
  /\ mc.stage = "read"
  /\ mc' = [stage |-> "masked", rmemask |-> mc.rmemask, rsemask |-> mc.rsemask,
            vpi |-> mc.vpi, vpast |-> mc.vpast,
            chosenmask |-> common_mask(mc.rsemask, mc.rmemask)]
  /\ UNCHANGED scriptVars

\* lines 585-594: regridded fields and their masks
GridRegrid ==
  /\ mc.stage = "masked"
  /\ mc' = [stage |-> "regridded", rmemask |-> mc.rmemask, rsemask |-> mc.rsemask,
            vpi |-> mc.vpi, vpast |-> mc.vpast, chosenmask |-> mc.chosenmask,
            vpir |-> regrid(mc.vpi), vpastr |-> regrid(mc.vpast),
            maskpi |-> repeat_mask(mc.chosenmask, mc.vpi),
            maskpast |-> repeat_mask(mc.chosenmask, mc.vpast)]
  /\ UNCHANGED scriptVars

\* lines 593-602: vpim = masked_where(maskpi, vpir), vpastm likewise, and the
\* four series of regional averages
GridAverages ==
  /\ mc.stage = "regridded"
  /\ LET recarea == [r \in 1..NRecCells |-> RecArea(r)]
         modarea == [c \in 1..NModelCells |-> ModelArea(c)]
         nomask == [c \in 1..NModelCells |-> FALSE]
     IN mc' = [stage |-> "averaged", rmemask |-> mc.rmemask, rsemask |-> mc.rsemask,
               vpi |-> mc.vpi, vpast |-> mc.vpast, chosenmask |-> mc.chosenmask,
               vpimall |-> averager(mc.vpi, repeat_mask(nomask, mc.vpi), modarea),
               vpastmall |-> averager(mc.vpast, repeat_mask(nomask, mc.vpast), modarea),
               vpirall |-> averager(mc.vpir, mc.maskpi, recarea),
               vpastrall |-> averager(mc.vpastr, mc.maskpast, recarea)]
  /\ UNCHANGED scriptVars

NextGrid == GridMask \/ GridRegrid \/ GridAverages

SpecGrid == InitGrid /\ [][NextGrid]_vars

RECURSIVE SetSum(_, _)
SetSum(f, S) == IF S = {} THEN 0 ELSE LET x == CHOOSE y \in S : TRUE IN f[x] + SetSum(f, S \ {x})

\* the cells where the reconstruction has both a mean and a standard error
BothCells == {r \in 1..NRecCells : ~mc.rmemask[r] /\ ~mc.rsemask[r]}

\* the area-weighted mean, over the cells of BothCells, of year y of the field
\* v taken on the reconstruction grid
MeanOnRecPts(v, y) ==
  <<SetSum([r \in BothCells |-> v[y][ModelCellOf(r)] * RecArea(r)], BothCells),
    SetSum([r \in BothCells |-> RecArea(r)], BothCells)>>

\* C5: the 'modelonrecpts' average of every year, of the pre-industrial and
\* of the past field alike, is the area-weighted mean of the regridded model
\* field over exactly the cells where the reconstruction has both a mean and
\* a standard error.
C5_ModelOnRecPts ==
  mc.stage = "averaged" =>
     /\ Len(mc.vpirall) = Len(mc.vpi)
     /\ Len(mc.vpastrall) = Len(mc.vpast)
     /\ \A y \in DOMAIN mc.vpi : FracEq(mc.vpirall[y], MeanOnRecPts(mc.vpi, y))
     /\ \A y \in DOMAIN mc.vpast : FracEq(mc.vpastrall[y], MeanOnRecPts(mc.vpast, y))

\* C5 witness: averages are computed where the two masks of the reconstruction
\* differ and a cell is left out of the average
C5_Witness ==
  /\ mc.stage = "averaged"
  /\ mc.rmemask # mc.rsemask
  /\ Cardinality(BothCells) = NRecCells - 2
  /\ mc.vpirall # mc.vpimall


(***************************************************************************)
(* The temporal averages of one model and one case (lines 604-642) with    *)
(* compute_monte_carlo_averages = 'yes', on series of at most MaxYears     *)
(* yearly values: NbYrs stands for nbyrs = 50 and NIterDist for            *)
(* niterdist = 10000.                                                      *)
(***************************************************************************)
MaxYears == 3

NbYrs == 2

NIterDist == 2

\* a series of regional averages, one value per year
YearSeries(a, b, len) == [y \in 1..len |-> a * y * y + b]

\* a choice that may take the same year several times (replace=1)
choice_with_replacement(a, size) ==
  {[k \in 1..size |-> a[t[k]]] : t \in [1..size -> DOMAIN a]}

\* N.random.choice(a, size, replace=0): the samples of size values of a that
\* can be drawn, no element of a being taken twice
N_random_choice(a, size) ==
  {[k \in 1..size |-> a[t[k]]] :
     t \in {u \in [1..size -> DOMAIN a] : \A j, k \in 1..size : j # k => u[j] # u[k]}}

\* lines 616-619: the series of the case, [0] pre-industrial and [1] past
TemporalInputs ==
  {[stage |-> "draw_pi", case |-> c, pi |-> a, past |-> b, distpi |-> <<>>, distpast |-> <<>>] :
     c \in Range(dic_stat_vars),
     a \in {YearSeries(1, 0, MaxYears), YearSeries(2, 1, MaxYears - 1)},
     b \in {YearSeries(1, 5, MaxYears), YearSeries(3, 0, MaxYears - 1)}}

InitTemporal ==
  /\ compute_averages_again = "yes"
  /\ ScriptStart
  /\ compute_monte_carlo_averages = "yes"
  /\ mc \in TemporalInputs

\* line 635: the sum of nbyrs years of the pre-industrial series (the average
\* is this sum over nbyrs)
DrawPi ==
  /\ mc.stage = "draw_pi"
  /\ Len(mc.distpi) < NIterDist
  /\ \E sample \in N_random_choice(mc.pi, NbYrs) :
       mc' = [mc EXCEPT !.stage = "draw_past", !.distpi = Append(@, SeqSum(sample))]
  /\ UNCHANGED scriptVars

\* line 636: the same for the past series, with a draw of its own
DrawPast ==
  /\ mc.stage = "draw_past"
  /\ \E sample \in N_random_choice(mc.past, NbYrs) :
       mc' = [mc EXCEPT !.stage = "draw_pi", !.distpast = Append(@, SeqSum(sample))]
  /\ UNCHANGED scriptVars

\* lines 637-642: deltam = distpast - distpi, its average and standard deviation
StoreDelta ==
  /\ mc.stage = "draw_pi"
  /\ Len(mc.distpi) = NIterDist
  /\ LET deltam == [n \in DOMAIN mc.distpi |-> mc.distpast[n] - mc.distpi[n]]
     IN mc' = [stage |-> "stored", case |-> mc.case, pi |-> mc.pi, past |-> mc.past,
               distpi |-> mc.distpi, distpast |-> mc.distpast,
               delta_mean |-> N_average(deltam, NbYrs), delta_std2 |-> N_std2(deltam, NbYrs)]
  /\ UNCHANGED scriptVars

NextTemporal == DrawPi \/ DrawPast \/ StoreDelta

SpecTemporal == InitTemporal /\ [][NextTemporal]_vars

\* the sums of the values of NbYrs different years of a series
SumsOfDistinctYears(a) ==
  {SetSum(a, Y) : Y \in {Z \in SUBSET DOMAIN a : Cardinality(Z) = NbYrs}}

\* C4: every average that enters the distribution is the average of NbYrs
\* different years of its series, the pre-industrial and the past averages
\* come from draws of their own, and the stored delta_mean and delta_std are
\* the average and the standard deviation of the NIterDist differences
\* (past average) - (pre-industrial average).
C4_TemporalAverages ==
  /\ mc.stage \in {"draw_pi", "draw_past", "stored"} =>
       /\ \A n \in DOMAIN mc.distpi : mc.distpi[n] \in SumsOfDistinctYears(mc.pi)
       /\ \A n \in DOMAIN mc.distpast : mc.distpast[n] \in SumsOfDistinctYears(mc.past)
  /\ mc.stage = "stored" =>
       /\ Len(mc.distpi) = NIterDist /\ Len(mc.distpast) = NIterDist
       /\ LET d == [n \in 1..NIterDist |-> mc.distpast[n] - mc.distpi[n]]
              sum == SetSum(d, 1..NIterDist)
              sumsq == SetSum([n \in 1..NIterDist |-> d[n] * d[n]], 1..NIterDist)
          IN /\ mc.delta_mean[1] * NIterDist * NbYrs = sum * mc.delta_mean[2]
             /\ mc.delta_std2[1] * (NIterDist * NIterDist * NbYrs * NbYrs)
                  = (NIterDist * sumsq - sum * sum) * mc.delta_std2[2]
             /\ mc.delta_mean[2] # 0 /\ mc.delta_std2[2] # 0

\* C4 witness: results are stored after draws in which the pre-industrial and
\* the past averages of one iteration differ from those of the other iteration
C4_Witness ==
  /\ mc.stage = "stored"
  /\ mc.distpi[1] # mc.distpi[NIterDist]
  /\ mc.distpast[1] = mc.distpast[NIterDist]
  /\ mc.delta_std2[1] # 0

(***************************************************************************)
(* The file selection of the MH period (lines 543-573) when a search may   *)
(* return no file, one file or two files.  The first NSearches models of   *)
(* the first MH iteration are followed; the MH period comes after the LGM  *)
(* period, so fnamepi and fnamepast start with the names of the last LGM   *)
(* model.                                                                  *)
(***************************************************************************)
NSearches == 2

\* the state when the model loop of the first MH iteration starts
InitFiles ==
  /\ compute_averages_again = "yes"
  /\ ScriptStart
  /\ LET first == CHOOSE k \in DOMAIN Part1Iters :
                    /\ Part1Iters[k][1] = "MH"
                    /\ \A j \in 1..(k - 1) : Part1Iters[j][1] # "MH"
         last == Part1Iters[first - 1]
         lastmodel == ModelsOfPeriod(last[1])[Len(ModelsOfPeriod(last[1]))]
     IN mc = [stage |-> "search_pi", it |-> first, im |-> 1, npi |-> 0, oldpi |-> UNDEF, stored |-> <<>>,
              fnamepi |-> FileName(last[1], "PI", lastmodel, last[4], UNDEF)[2],
              fnamepast |-> FileName(last[1], last[1], lastmodel, last[4], UNDEF)[2]]

\* lines 544-558: the search of the piControl file; fnamepi is then opened
\* and read
SearchPi ==
  /\ mc.stage = "search_pi"
  /\ mc.im <= NSearches
  /\ LET var == Part1Iters[mc.it][4]
         modvarname == dic_model_varnames[var]
         one == glob(Join(<<modvarname, dic_model_diagnames[var] \o modvarname,
                            list_models_mh[mc.im], "piControl">>))
     IN \E file_list \in {<<>>, one, one \o <<"other">>} :
          mc' = [mc EXCEPT !.stage = "search_past", !.npi = Len(file_list), !.oldpi = mc.fnamepi,
                           !.fnamepi = SelectFile(file_list, @)]
  /\ UNCHANGED scriptVars

\* lines 560-573 and 616-642: the search of the midHolocene file; fnamepast
\* is then opened and read, and the results of the model are stored
SearchPast ==
  /\ mc.stage = "search_past"
  /\ LET var == Part1Iters[mc.it][4]
         modvarname == dic_model_varnames[var]
         one == glob(Join(<<modvarname, dic_model_diagnames[var] \o modvarname,
                            list_models_mh[mc.im], "midHolocene">>))
     IN \E file_list \in {<<>>, one, one \o <<"other">>} :
          LET selected == SelectFile(file_list, mc.fnamepast)
          IN mc' = [mc EXCEPT !.stage = "search_pi", !.im = @ + 1,
                              !.fnamepast = selected,
                              !.stored = Append(@, [model |-> list_models_mh[mc.im],
                                                    npi |-> mc.npi, npast |-> Len(file_list),
                                                    oldpi |-> mc.oldpi, oldpast |-> mc.fnamepast,
                                                    vpi |-> mc.fnamepi, vpast |-> selected])]
  /\ UNCHANGED scriptVars

NextFiles == SearchPi \/ SearchPast

SpecFiles == InitFiles /\ [][NextFiles]_vars

\* C11: when a search of the MH period does not return exactly one file, no
\* result is stored for the model that was computed from a file selected
\* earlier, for another model, variable, diagnostic or period: the fields a
\* stored result was computed from (vpi, vpast) are never read from the file
\* that fnamepi or fnamepast named before the failed search (oldpi, oldpast).
C11_NoStaleFile ==
  mc.stage \in {"search_pi", "search_past"} =>
    \A n \in DOMAIN mc.stored :
      /\ mc.stored[n].npi # 1 => mc.stored[n].vpi # mc.stored[n].oldpi
      /\ mc.stored[n].npast # 1 => mc.stored[n].vpast # mc.stored[n].oldpast

(***************************************************************************)
(* Figure 3.44: claims about the panels drawn and the report written       *)
(***************************************************************************)
\* the subplots of Figure 3.44 whose panel was processed to its end
DonePanels ==
  IF pc \in {"panel", "fig344_save"}
  THEN {fig[n] : n \in {m \in DOMAIN fig : fig[m].star_ar5 # ""}}
  ELSE {}

\* the values drawn in subplot s for the models that satisfy Test
YsOf(s, Test(_)) == {s.points[n].y : n \in {m \in DOMAIN s.points : Test(s.points[m].model)}}

\* C12: in every panel of Figure 3.44 both ensemble means are averages over a
\* non-empty list: 'Ensemble mean PMIP3-CMIP5' is the mean of the deltas of
\* the panel's PMIP3 models, 'Ensemble mean PMIP4-CMIP6' the mean of the
\* deltas of its CMIP6 and other PMIP4 models, and neither list is empty, in
\* the LIG, MPWP and EECO panels as in the others.
C12_EnsembleMeansNonEmpty ==
  \A s \in DonePanels :
     LET InPmip3(model) == model \in Range(list_pmip3_models)
         NotInPmip3(model) == model \notin Range(list_pmip3_models)
     IN /\ s.list_ens_means_pmip3 # <<>>
        /\ s.list_ens_means_cmip6 \o s.list_ens_means_pmip4 # <<>>
        /\ s.star_ar5 = N_mean(s.list_ens_means_pmip3)
        /\ s.star_ar6 = N_mean(s.list_ens_means_cmip6 \o s.list_ens_means_pmip4)
        /\ Range(s.list_ens_means_pmip3) = YsOf(s, InPmip3)
        /\ Range(s.list_ens_means_cmip6 \o s.list_ens_means_pmip4) = YsOf(s, NotInPmip3)

\* the points of the LGM models in Figure 3.2a, once its model loop has run
Fig32aPoints ==
  IF pc \in {"fig32a_save", "done"} /\ Len(fig) = 1
  THEN {fig[1].points[n] : n \in {m \in DOMAIN fig[1].points :
                                     fig[1].points[m].group # "reconstructions"}}
  ELSE {}

\* C13: in Figure 3.2a every LGM model is drawn in the style of its own
\* group, whatever the order of the Figure 3.44 panels: a model of
\* list_cmip6_models in its own colour, any other model of
\* list_pmip4_models_lgm gray-filled, and every model of
\* list_pmip3_models_lgm white-filled; the value left in list_pmip4_models2
\* by the last panel of Figure 3.44 makes no difference.
C13_Fig32aOwnGroup ==
  \A p \in Fig32aPoints :
     /\ p.model \in Range(list_cmip6_models) =>
          p.mec = "color/" \o p.model /\ p.mfc = "color/" \o p.model
     /\ p.model \in Range(list_pmip4_models_lgm) \ Range(list_cmip6_models) =>
          p.mec = "gray" /\ p.mfc = "gray"
     /\ p.model \in Range(list_pmip3_models_lgm) =>
          p.mec = "gray" /\ p.mfc = "white"

\* the PMIP3 and the PMIP4 models of a period of Part I
Pmip3Of(period) == IF period = "LGM" THEN list_pmip3_models_lgm ELSE list_pmip3_models_mh

Pmip4Of(period) == IF period = "LGM" THEN list_pmip4_models_lgm ELSE list_pmip4_models_mh

\* C14: in every panel of Figure 3.44 each model of the panel's list is put in
\* exactly one of the three groups and adds its delta to exactly one ensemble
\* list, so the three lists together hold as many values as the panel has
\* models; in the MH and LGM panels every model of the period's PMIP3 list is
\* drawn at x = 1 with a white fill and every model of the period's PMIP4 list
\* at x = 2; no model is in both list_pmip3_models and list_pmip4_models.
C14_OneGroupPerModel ==
  /\ Range(list_pmip3_models) \cap Range(list_pmip4_models) = {}
  /\ \A s \in DonePanels :
       LET period == dic_summ_plots[s.sp][1]
           models == PanelModels(period, <<>>)
       IN /\ Len(s.points) = Len(models)
          /\ \A n \in DOMAIN s.points :
               /\ s.points[n].model = models[n]
               /\ s.points[n].group \in {"CMIP6", "PMIP4", "PMIP3"}
          /\ Len(s.list_ens_means_cmip6) + Len(s.list_ens_means_pmip4)
               + Len(s.list_ens_means_pmip3) = Len(models)
          /\ \A g \in {"CMIP6", "PMIP4", "PMIP3"} :
               Len(CASE g = "CMIP6" -> s.list_ens_means_cmip6
                     [] g = "PMIP4" -> s.list_ens_means_pmip4
                     [] g = "PMIP3" -> s.list_ens_means_pmip3)
                 = Cardinality({n \in DOMAIN s.points : s.points[n].group = g})
          /\ period \in {"MH", "LGM"} =>
               \A n \in DOMAIN s.points :
                  /\ s.points[n].model \in Range(Pmip3Of(period)) =>
                       s.points[n].x = 1 /\ s.points[n].mfc = "white"
                  /\ s.points[n].model \in Range(Pmip4Of(period)) => s.points[n].x = 2

\* C14 witness: an MH panel and an LGM panel are drawn, each with models of
\* the period's PMIP3 list and of its PMIP4 list
C14_Witness ==
  \A period \in {"MH", "LGM"} :
     \E s \in DonePanels :
        /\ dic_summ_plots[s.sp][1] = period
        /\ \E n, m \in DOMAIN s.points :
              /\ s.points[n].model \in Range(Pmip3Of(period))
              /\ s.points[m].model \in Range(Pmip4Of(period))

\* C15: in the loop of Figure 3.44, for any order of the panels and for every
\* model of every panel, delta, deltaerr, the index i and pmipphase have been
\* assigned during the execution before they are read: no NameError is raised
\* while the panels are processed, not even when the first panel is a Globe
\* panel or when a model of the LIG, MPWP or EECO tables is in none of the
\* four PMIP3/PMIP4 lists of the LGM and the MH.
C15_AssignedBeforeRead ==
  reports[Fig32aReport].status = "absent" =>
     /\ err # "NameError"
     /\ \A s \in DonePanels :
          \A n \in DOMAIN s.points :
             s.points[n].y # UNDEF /\ s.points[n].yerr # UNDEF /\ s.points[n].x \in {1, 2}

\* C16: in Figure 3.44 the value shown for a model depends on the kind of the
\* panel.  In a Globe panel it is the allmodelpts delta_mean of dic_res for
\* the MH and the LGM, the tabulated global mean anomaly for LIG, MPWP and
\* EECO, always with a zero error bar, and the band is the assessed range of
\* the period, which every Globe panel's period has.  In any other panel it
\* is the modelonrecpts delta_mean with delta_std as error bar, and the band
\* is the reconstruction mean minus and plus its standard deviation.
C16_ValuesByPanelKind ==
  \A s \in DonePanels :
     LET period == dic_summ_plots[s.sp][1]
         var == dic_summ_plots[s.sp][2]
         region == dic_summ_plots[s.sp][3]
         rds == dic_summ_plots[s.sp][4]
         at == <<period, var, region, rds>>
     IN IF region = "Globe"
        THEN /\ period \in DOMAIN darrell_s_delta_gsat_estimates
             /\ s.lo = Join(<<"assessed", period, "min">>)
             /\ s.hi = Join(<<"assessed", period, "max">>)
             /\ \A n \in DOMAIN s.points :
                  /\ s.points[n].yerr = ZERO
                  /\ s.points[n].y =
                       IF period \in {"MH", "LGM"}
                       THEN Join(at \o <<s.points[n].model, "allmodelpts", "delta_mean">>)
                       ELSE Join(<<"table", period, s.points[n].model>>)
                  /\ period \notin {"MH", "LGM"} =>
                       s.points[n].model \in GlobalMeanTable(period)
        ELSE /\ s.lo = Join(at \o <<"reconstructions", "mean">>) \o "-"
                         \o Join(at \o <<"reconstructions", "std">>)
             /\ s.hi = Join(at \o <<"reconstructions", "mean">>) \o "+"
                         \o Join(at \o <<"reconstructions", "std">>)
             /\ \A n \in DOMAIN s.points :
                  /\ s.points[n].y =
                       Join(at \o <<s.points[n].model, "modelonrecpts", "delta_mean">>)
                  /\ s.points[n].yerr =
                       Join(at \o <<s.points[n].model, "modelonrecpts", "delta_std">>)

\* C16 witness: panels of the three kinds are drawn: a Globe panel of the MH
\* or the LGM, a Globe panel of a period with tabulated values, and a panel
\* of a region with reconstructions, each with its models
C16_Witness ==
  /\ \E s \in DonePanels :
        /\ dic_summ_plots[s.sp][3] = "Globe" /\ dic_summ_plots[s.sp][1] \in {"MH", "LGM"}
        /\ s.points # <<>>
  /\ \E s \in DonePanels :
        /\ dic_summ_plots[s.sp][3] = "Globe" /\ dic_summ_plots[s.sp][1] \in {"LIG", "MPWP", "EECO"}
        /\ s.points # <<>>
  /\ \E s \in DonePanels : dic_summ_plots[s.sp][3] # "Globe" /\ s.points # <<>>

\* the grid points of a reconstruction at which both the mean and the
\* standard error are given
BothGiven == {k \in 1..NPts : ~mc.rmemask[k] /\ ~mc.rsemask[k]}

\* the k-th smallest element of a set of grid points
RECURSIVE Nth(_, _)
Nth(S, k) ==
  LET lo == CHOOSE x \in S : \A y \in S : x <= y
  IN IF k = 1 THEN lo ELSE Nth(S \ {lo}, k - 1)

\* C17: the common mask of a reconstruction is the union of the mask of the
\* mean and the mask of the standard error; with it imposed, mean and
\* standard error are unmasked at exactly the same grid points, nbpts is the
\* number of those points, the compressed mean, standard error and weights all
\* have length nbpts and list the points in the same order, and the weights
\* (area over the sum of the areas) sum to 1.
C17_CommonMask ==
  mc.stage = "draw" =>
     /\ \A k \in 1..NPts : mc.recmask[k] <=> (mc.rmemask[k] \/ mc.rsemask[k])
     /\ {k \in 1..NPts : ~mc.recmask[k]} = BothGiven
     /\ mc.nbpts = Cardinality(BothGiven)
     /\ Len(mc.rme) = mc.nbpts /\ Len(mc.rse) = mc.nbpts /\ Len(mc.area) = mc.nbpts
     /\ \A j \in 1..Cardinality(BothGiven) :
          /\ mc.rme[j] = mc.rmeorig[Nth(BothGiven, j)]
          /\ mc.rse[j] = mc.rseorig[Nth(BothGiven, j)]
          /\ mc.area[j] = RecArea(Nth(BothGiven, j))
     /\ mc.wsum # 0
     /\ SeqSum(mc.area) = mc.wsum

\* C17 witness: a reconstruction whose mean and standard error are masked at
\* different points has been compressed, with a point left out
C17_Witness ==
  /\ mc.stage = "draw"
  /\ mc.nbpts < NPts
  /\ \E k \in 1..NPts : mc.rmemask[k] # mc.rsemask[k]

(***************************************************************************)
(* The change of units of the two fields of a model (lines 575-582).       *)
(* Temperatures are counted in hundredths of a kelvin, so that 273.15 is   *)
(* the integer 27315; precipitation is counted in whole units.             *)
(***************************************************************************)
\* nothing is subtracted
minus_nothing(v) == v

\* v -= 273.15, lines 577 and 578
minus_273_15(v) == v - 27315

\* v *= 86400.*365, lines 581 and 582
times_86400_365(v) == v * (86400 * 365)

\* lines 557 and 572: the two fields of a model of the period, for a variable
\* of the period
InitUnits ==
  /\ compute_averages_again = "yes"
  /\ ScriptStart
  /\ \E n \in DOMAIN Part1Iters :
       \E model \in Range(ModelsOfPeriod(Part1Iters[n][1])) :
          \E a, b \in IF Part1Iters[n][4] = "MAP" THEN {2, 3} ELSE {27415, 28815} :
             mc = [stage |-> "read", var |-> Part1Iters[n][4], model |-> model,
                   vpiorig |-> a, vpastorig |-> b, vpi |-> a, vpast |-> b]

\* lines 575-582
ChangeUnits ==
  /\ mc.stage = "read"
  /\ LET kelvin == mc.var \in {"MAT", "MTCO", "MTWA", "MATocean"}
         vpi1 == IF kelvin THEN minus_273_15(mc.vpi) ELSE mc.vpi
         vpast1 == IF kelvin THEN minus_273_15(mc.vpast) ELSE mc.vpast
         yearly == mc.var \in {"MAP"} /\ mc.model \notin {"iLOVECLIM-ICE-6G", "iLOVECLIM-GLAC1D"}
     IN mc' = [mc EXCEPT !.stage = "converted",
                         !.vpi = IF yearly THEN times_86400_365(vpi1) ELSE vpi1,
                         !.vpast = IF yearly THEN times_86400_365(vpast1) ELSE vpast1]
  /\ UNCHANGED scriptVars

SpecUnits == InitUnits /\ [][ChangeUnits]_vars

\* C18: for every variable and model the pre-industrial and the past field
\* get the same change of units before the anomaly is taken: 273.15 is
\* subtracted from both for MAT, MTCO, MTWA and MATocean; both are multiplied
\* by 86400*365 for MAP, except for iLOVECLIM-ICE-6G and iLOVECLIM-GLAC1D,
\* whose two fields are both left as they are; no variable and model has one
\* field converted and the other not.
C18_SameUnitsBothFields ==
  mc.stage = "converted" =>
     /\ mc.var \in {"MAT", "MTCO", "MTWA", "MATocean"} =>
          mc.vpi = mc.vpiorig - 27315 /\ mc.vpast = mc.vpastorig - 27315
     /\ mc.var = "MAP" /\ mc.model \notin {"iLOVECLIM-ICE-6G", "iLOVECLIM-GLAC1D"} =>
          mc.vpi = mc.vpiorig * 31536000 /\ mc.vpast = mc.vpastorig * 31536000
     /\ mc.var = "MAP" /\ mc.model \in {"iLOVECLIM-ICE-6G", "iLOVECLIM-GLAC1D"} =>
          mc.vpi = mc.vpiorig /\ mc.vpast = mc.vpastorig
     /\ mc.var \in {"MAT", "MTCO", "MTWA", "MATocean", "MAP"}
     /\ (mc.vpi = mc.vpiorig) <=> (mc.vpast = mc.vpastorig)

\* C18 witness: two different precipitation fields of an iLOVECLIM model have
\* been through the change of units
C18_Witness ==
  /\ mc.stage = "converted"
  /\ mc.var = "MAP"
  /\ mc.model = "iLOVECLIM-GLAC1D"
  /\ mc.vpi # mc.vpast

\* C19: every lookup in the configuration tables succeeds.  Every model of
\* list_models_lgm has a file template in dic_models['PI'] and in
\* dic_models['LGM'], each with two placeholders; every (period,
\* reconstruction, variable) of dic_list_vars has a data file, a triple of
\* variable names and a mask choice; every region of list_regions and of the
\* panels of Figure 3.44 is in dic_regions; every model of list_cmip6_models
\* has a colour; every reconstruction of a panel has a label.  No execution
\* ends with a KeyError or with a template that does not take its two values
\* (the KeyError of a saved store that was never written is not a lookup in
\* the configuration).
C19_LookupsSucceed ==
  /\ \A m \in Range(list_models_lgm) :
        /\ m \in DOMAIN dic_models["PI"] /\ dic_models["PI"][m] = 2
        /\ m \in DOMAIN dic_models["LGM"] /\ dic_models["LGM"][m] = 2
  /\ \A period \in DOMAIN dic_list_vars :
        \A rds \in DOMAIN dic_list_vars[period] :
           \A n \in DOMAIN dic_list_vars[period][rds] :
              LET var == dic_list_vars[period][rds][n]
              IN /\ rds \in DOMAIN dic_data_files
                 /\ var \in DOMAIN dic_data_files[rds]
                 /\ period \in dic_data_files[rds][var]
                 /\ rds \in DOMAIN dic_rec_varnames
                 /\ var \in DOMAIN dic_rec_varnames[rds]
                 /\ Len(dic_rec_varnames[rds][var]) = 3
                 /\ rds \in DOMAIN dic_rds_masks
  /\ Range(list_regions) \subseteq dic_regions
  /\ \A sp \in DOMAIN dic_summ_plots :
        dic_summ_plots[sp][3] \in dic_regions /\ dic_summ_plots[sp][4] \in DOMAIN dic_labels
  /\ Range(list_cmip6_models) \subseteq dic_color_models
  /\ err \in {"KeyError", "TypeError"} =>
       compute_averages_again # "yes" /\ StoreKey \notin DOMAIN store

\* C19 witness: the averages have been computed for the last LGM model and
\* the execution has then gone through every panel and Figure 3.2a
C19_Witness ==
  /\ recomputed = 1
  /\ compute_averages_again = "yes"
  /\ pc = "done"
  /\ HasPath(dic_res, <<"LGM", "MAP", "WestAfrica", "Cleator2019", "IPSLCM5A2",
                        "modelonrecpts", "delta_std">>)
  /\ reports[Fig32aReport].status = "closed"

\* the block of the report of Figure 3.44 that goes with the drawn subplot s:
\* the lines of the panel, the model lines carrying the values plotted
BlockOf(s) ==
  LET period == dic_summ_plots[s.sp][1]
      var == dic_summ_plots[s.sp][2]
      region == dic_summ_plots[s.sp][3]
      rds == dic_summ_plots[s.sp][4]
      models == PanelModels(period, <<>>)
  IN <<Line("region", Join(<<region, var, period>>), "", ""),
       Line("rds", dic_labels[rds], "", ""),
       Line("rec", "reconstructions, average (std)", "", ""),
       Line("hdr", "model results - average (std)", "", "")>>
     \o [k \in DOMAIN models |->
           Line("model",
                IF models[k] \in DOMAIN dic_labels THEN dic_labels[models[k]] ELSE models[k],
                IF k \in DOMAIN s.points THEN s.points[k].y ELSE "",
                IF k \in DOMAIN s.points THEN s.points[k].yerr ELSE "")]
     \o <<Line("ens", "Ensemble mean PMIP3-CMIP5", s.star_ar5, ""),
          Line("ens", "Ensemble mean PMIP4-CMIP6", s.star_ar6, ""),
          Line("sep", "", "", "")>>

\* the report of Figure 3.44 is its header followed by the blocks of the
\* first done panels, in the order in which the panels were processed (the
\* values of the reconstruction line are left open)
ReportIsBlocks(done) ==
  LET lines == reports[Fig344Report].lines
      head == Len(ReportHeader(""))
      expected == Concat([n \in 1..done |-> BlockOf(fig[n])])
  IN /\ Len(lines) = head + Len(expected)
     /\ \A n \in 1..done : fig[n].sp = sp_list[n]
     /\ \A j \in DOMAIN expected :
          IF expected[j].kind = "rec"
          THEN lines[head + j].kind = "rec" /\ lines[head + j].label = expected[j].label
          ELSE lines[head + j] = expected[j]

\* C20 as stated: the report of Figure 3.44, once written, holds one block
\* per panel, 21 blocks, and the block of a panel holds in this order the
\* region/variable/period line, the reconstruction data set line, the
\* reconstruction average line, one line per model of the panel's list in
\* list order, the two ensemble-mean lines and a separator line, the value on
\* a model's line being the value plotted for the model in the panel.
C20_Report21Blocks ==
  pc = "fig32a_open" => ReportIsBlocks(Len(sp_list)) /\ Len(sp_list) = 21

\* C20 amended: the report holds one block per panel processed to its end, in
\* the order of processing, 19 blocks when all the panels of the table are
\* done; a block holds the region/variable/period line, the reconstruction
\* data set line, the reconstruction average line, the line 'model results -
\* average (std)', one line per model of the panel's list in list order with
\* the value and the error bar plotted for the model, the two ensemble-mean
\* lines and a separator line.
C20_ReportBlocks ==
  /\ pc = "panel" => ReportIsBlocks(isp - 1)
  /\ pc \in {"fig344_save", "fig32a_open"} =>
       ReportIsBlocks(Len(sp_list)) /\ Len(sp_list) = 19

\* C20 witness: all the panels are done and the report of Figure 3.44 is
\* closed, with the 19 blocks in it
C20_Witness ==
  /\ pc = "fig32a_open"
  /\ reports[Fig344Report].status = "closed"
  /\ Len(fig) = 19
  /\ Len(SelectSeq(reports[Fig344Report].lines, IsRecLine)) = 19
====
